---- MODULE Spec2Model ----
(***************************************************************************)
(* Transaction classification, weighted-average position building and FIFO *)
(* tax-lot matching of the tracky portfolio dashboard.                     *)
(*                                                                         *)
(* Numbers are JavaScript doubles in the source.  They are modelled as     *)
(* exact rationals [n |-> numerator, d |-> denominator] in lowest terms    *)
(* (d > 0), i.e. by the real-number value of every arithmetic operation;   *)
(* NaN is the one non-number.  Strings are sequences of one-character      *)
(* strings, so that trim, case conversion and split are computed.          *)
(* Dates are instants counted in hours.                                    *)
(***************************************************************************)
EXTENDS Integers, Sequences, FiniteSets, TLC

VARIABLES
    rawTransactions,  \* argument of processTransactions (the fetched list)
    pc,               \* position in the pipeline
    sorted,           \* processTransactions: date-sorted copy of the input
    idx,              \* processTransactions: number of records replayed
    positionsMap,     \* processTransactions: clean symbol -> position
    trades,           \* emitted trades
    fees,             \* emitted fee and tax records
    dividends,        \* emitted dividend records
    stats,            \* diagnostic counters
    positions,        \* open positions handed to the dashboard
    results,          \* gains: the report being accumulated
    symbols,          \* gains: distinct symbols of trades, first occurrence order
    symIdx,           \* gains: number of symbols finished
    symTrades,        \* gains: the current symbol's trades, by date
    tIdx,             \* gains: number of symTrades replayed
    lots,             \* gains: the current symbol's tax-lot queue
    sells,            \* gains: the current symbol's sale audit entries
    symLocals,        \* gains: ccy, curPrice, fullySold, symRealized, symCostSold, symProceeds
    sale,             \* gains: the locals of the last sell branch run
    auditLog,         \* gains: audit log lines
    totalFees,        \* dashboard: the fees and taxes in EUR
    totalDivs,        \* dashboard: the dividends in EUR
    dashboard,        \* dashboard: rawTx, trades, fees, dividends and status as last set
    addTrade,         \* add-trade page: the transactions table and the last recordTransaction
    now               \* Date.now() at the time the gains are computed

vars == <<rawTransactions, pc, sorted, idx, positionsMap, trades, fees,
          dividends, stats, positions, results, symbols, symIdx,
          symTrades, tIdx, lots, sells, symLocals, sale, auditLog, totalFees,
          totalDivs, dashboard, now, addTrade>>

----------------------------------------------------------------------------
(* Bounds of the model *)

\* longest list of trade records replayed
MaxRecords == 4

----------------------------------------------------------------------------
(* Numbers *)

RECURSIVE GCD(_, _)
GCD(a, b) == IF b = 0 THEN a ELSE GCD(b, a % b)

IAbs(x) == IF x < 0 THEN -x ELSE x

\* the rational n/d in lowest terms, d # 0
Rat(n, d) ==
    LET g == GCD(IAbs(n), IAbs(d))
        s == IF d < 0 THEN -1 ELSE 1
    IN  [n |-> s * (n \div g), d |-> s * (d \div g)]

Num(k) == [n |-> k, d |-> 1]
Zero == Num(0)
NaN == [n |-> 0, d |-> 0]

LCM(a, b) == (a \div GCD(a, b)) * b

Add(a, b) ==
    LET l == LCM(a.d, b.d)
    IN  Rat(a.n * (l \div a.d) + b.n * (l \div b.d), l)

Neg(a) == [n |-> -a.n, d |-> a.d]
Sub(a, b) == Add(a, Neg(b))

Mul(a, b) ==
    IF a.n = 0 \/ b.n = 0 THEN Zero
    ELSE LET g1 == GCD(IAbs(a.n), b.d)
             g2 == GCD(IAbs(b.n), a.d)
         IN  [n |-> (a.n \div g1) * (b.n \div g2),
              d |-> (a.d \div g2) * (b.d \div g1)]

\* a / b for b # 0
Div(a, b) ==
    Mul(a, IF b.n < 0 THEN [n |-> -b.d, d |-> -b.n] ELSE [n |-> b.d, d |-> b.n])

Lt(a, b) ==
    LET l == LCM(a.d, b.d)
    IN  a.n * (l \div a.d) < b.n * (l \div b.d)
Gt(a, b) == Lt(b, a)
Le(a, b) == ~Lt(b, a)
Ge(a, b) == ~Lt(a, b)

MathAbs(a) == [n |-> IAbs(a.n), d |-> a.d]
MathMin(a, b) == IF Lt(b, a) THEN b ELSE a
MathMax(a, b) == IF Lt(a, b) THEN b ELSE a

\* Math.ceil of a rational, as an integer
MathCeil(a) == -((-a.n) \div a.d)

----------------------------------------------------------------------------
(* Strings *)

Uppers == <<"A", "B", "C", "D", "E", "F", "G", "H", "I", "J", "K", "L", "M",
            "N", "O", "P", "Q", "R", "S", "T", "U", "V", "W", "X", "Y", "Z">>
Lowers == <<"a", "b", "c", "d", "e", "f", "g", "h", "i", "j", "k", "l", "m",
            "n", "o", "p", "q", "r", "s", "t", "u", "v", "w", "x", "y", "z">>

LowerChar(c) ==
    IF \E i \in 1..26 : Uppers[i] = c
    THEN Lowers[CHOOSE i \in 1..26 : Uppers[i] = c] ELSE c
UpperChar(c) ==
    IF \E i \in 1..26 : Lowers[i] = c
    THEN Uppers[CHOOSE i \in 1..26 : Lowers[i] = c] ELSE c

ToLowerCase(s) == [i \in 1..Len(s) |-> LowerChar(s[i])]
ToUpperCase(s) == [i \in 1..Len(s) |-> UpperChar(s[i])]

\* String.prototype.trim: leading and trailing blanks removed
Trim(s) ==
    LET nb == {i \in 1..Len(s) : s[i] # " "}
    IN  IF nb = {} THEN <<>>
        ELSE LET lo == CHOOSE i \in nb : \A j \in nb : i <= j
                 hi == CHOOSE i \in nb : \A j \in nb : i >= j
             IN  SubSeq(s, lo, hi)

Colons(s) == {i \in 1..Len(s) : s[i] = ":"}
Includes(s, c) == \E i \in 1..Len(s) : s[i] = c

\* s.split(':')[0]
SplitFirst(s) ==
    IF Colons(s) = {} THEN s
    ELSE LET c1 == CHOOSE i \in Colons(s) : \A j \in Colons(s) : i <= j
         IN  SubSeq(s, 1, c1 - 1)

\* s.split(':')[1], for s with a colon
SplitSecond(s) ==
    LET c1   == CHOOSE i \in Colons(s) : \A j \in Colons(s) : i <= j
        rest == SubSeq(s, c1 + 1, Len(s))
    IN  SplitFirst(rest)

\* a missing (null / undefined) field of a record
Null == <<"null-value">>

\* (v || '') for a string or missing field
OrEmpty(v) == IF v = Null THEN <<>> ELSE v

----------------------------------------------------------------------------
(* String literals of the classifier *)

S_cash == <<"c", "a", "s", "h">>
S_fee == <<"f", "e", "e">>
S_expense == <<"e", "x", "p", "e", "n", "s", "e">>
S_tax == <<"t", "a", "x">>
S_withholding_tax == <<"w", "i", "t", "h", "h", "o", "l", "d", "i", "n", "g", " ", "t", "a", "x">>
S_cash_dividends == <<"c", "a", "s", "h", " ", "d", "i", "v", "i", "d", "e", "n", "d", "s">>
S_dividend == <<"d", "i", "v", "i", "d", "e", "n", "d">>
S_stock == <<"s", "t", "o", "c", "k">>
S_etf == <<"e", "t", "f">>
S_equity == <<"e", "q", "u", "i", "t", "y">>
S_buy == <<"b", "u", "y">>
S_sell == <<"s", "e", "l", "l">>
S_transfer_in == <<"t", "r", "a", "n", "s", "f", "e", "r", " ", "i", "n">>
S_transfer_out == <<"t", "r", "a", "n", "s", "f", "e", "r", " ", "o", "u", "t">>
S_EUR == <<"E", "U", "R">>
S_USD == <<"U", "S", "D">>
S_GBP == <<"G", "B", "P">>

----------------------------------------------------------------------------
(* Numeric fields of a raw record: a JSON number, a JSON string or null *)

JNum(r) == [t |-> "number", num |-> r, str |-> <<>>]
JStr(s) == [t |-> "string", num |-> [n |-> 0, d |-> 0], str |-> s]
JNull == [t |-> "null", num |-> [n |-> 0, d |-> 0], str |-> <<>>]

DigitChars == <<"0", "1", "2", "3", "4", "5", "6", "7", "8", "9">>
IsDigit(c) == \E i \in 1..10 : DigitChars[i] = c
DigitVal(c) == (CHOOSE i \in 1..10 : DigitChars[i] = c) - 1

\* number of leading decimal digits of s
LeadingDigits(s) ==
    LET ks == {k \in 0..Len(s) : \A i \in 1..k : IsDigit(s[i])}
    IN  CHOOSE k \in ks : \A j \in ks : j <= k

RECURSIVE DigitsValue(_)
DigitsValue(s) ==
    IF s = <<>> THEN 0
    ELSE 10 * DigitsValue(SubSeq(s, 1, Len(s) - 1)) + DigitVal(s[Len(s)])

RECURSIVE Pow10(_)
Pow10(k) == IF k = 0 THEN 1 ELSE 10 * Pow10(k - 1)

\* parseFloat of a string: leading blanks, a sign, digits, a fraction; the
\* longest numeric prefix is taken and the rest ignored; NaN without a digit
ParseDecimal(s) ==
    LET nb   == {i \in 1..Len(s) : s[i] # " "}
        t    == IF nb = {} THEN <<>>
                ELSE SubSeq(s, CHOOSE i \in nb : \A j \in nb : i <= j, Len(s))
        sgn  == IF t # <<>> /\ t[1] = "-" THEN -1 ELSE 1
        u    == IF t # <<>> /\ t[1] \in {"-", "+"} THEN Tail(t) ELSE t
        k    == LeadingDigits(u)
        dot  == Len(u) > k /\ u[k + 1] = "."
        f    == IF dot THEN SubSeq(u, k + 2, Len(u)) ELSE <<>>
        m    == LeadingDigits(f)
    IN  IF k = 0 /\ m = 0 THEN NaN
        ELSE Rat(sgn * (DigitsValue(SubSeq(u, 1, k)) * Pow10(m)
                        + DigitsValue(SubSeq(f, 1, m))), Pow10(m))

ParseFloat(x) ==
    CASE x.t = "number" -> x.num
      [] x.t = "string" -> ParseDecimal(x.str)
      [] OTHER          -> NaN

\* faulty variant of the fallback: 1 instead of 0
OrZero_DefaultsToOne(x) == IF x = NaN \/ x.n = 0 THEN Num(1) ELSE x

\* (x || 0): NaN and 0 are falsy
OrZero(x) == IF x = NaN \/ x.n = 0 THEN Zero ELSE x

\* (v || dflt) for a string field: null and '' are falsy
OrDefault(v, dflt) == IF v = Null \/ v = <<>> THEN dflt ELSE v

----------------------------------------------------------------------------
(* Thresholds *)

\* 0.00001 shares
QtyEps == Rat(1, 100000)
\* 0.0001 shares: below it a dividend record's quantity is ignored
DivQtyEps == Rat(1, 10000)
\* 0.001 currency units: smallest dividend recorded
AmtEps == Rat(1, 1000)

----------------------------------------------------------------------------
(* processTransactions: classification and the weighted-average ledger *)

\* time between two instants one day apart (86400000 ms), in hours
DayLength == 24

\* new Date(d) of a date field, as an instant
DateValue(d) == d

\* faulty variant of the insertion: an element goes before the elements of
\* the same instant
RECURSIVE InsertIndex_BeforeEqual(_, _, _)
InsertIndex_BeforeEqual(p, i, keys) ==
    IF p = <<>> THEN <<i>>
    ELSE IF keys[p[Len(p)]] < keys[i] THEN Append(p, i)
    ELSE Append(InsertIndex_BeforeEqual(SubSeq(p, 1, Len(p) - 1), i, keys), p[Len(p)])

\* [...list].sort((a, b) => new Date(a.date) - new Date(b.date)): ascending
\* and stable, on a copy
RECURSIVE InsertIndex(_, _, _)
InsertIndex(p, i, keys) ==
    IF p = <<>> THEN <<i>>
    ELSE IF keys[p[Len(p)]] <= keys[i] THEN Append(p, i)
    ELSE Append(InsertIndex(SubSeq(p, 1, Len(p) - 1), i, keys), p[Len(p)])

RECURSIVE SortedIndices(_, _)
SortedIndices(n, keys) ==
    IF n = 0 THEN <<>> ELSE InsertIndex(SortedIndices(n - 1, keys), n, keys)

\* xs ordered by the instants keys[i] of its elements
SortByDate(xs, keys) ==
    LET p == SortedIndices(Len(xs), keys) IN [i \in 1..Len(xs) |-> xs[p[i]]]

TxDates(xs) == [i \in 1..Len(xs) |-> DateValue(xs[i].transaction_date)]
TradeDates(xs) == [i \in 1..Len(xs) |-> DateValue(xs[i].date)]

\* the locals the forEach callback derives from one raw record
Fields(tx) ==
    [symbol    |-> Trim(OrEmpty(tx.symbol)),
     assetType |-> Trim(ToLowerCase(OrEmpty(tx.asset_type))),
     txType    |-> Trim(ToLowerCase(OrEmpty(tx.transaction_type))),
     qty       |-> OrZero(ParseFloat(tx.quantity)),
     price     |-> OrZero(ParseFloat(tx.price_per_unit)),
     ccy       |-> ToUpperCase(OrDefault(tx.currency, S_EUR)),
     date      |-> tx.transaction_date,
     rawTxType |-> tx.transaction_type]

IsCash(f) == ToLowerCase(f.symbol) = S_cash \/ f.assetType = S_cash
IsFee(f) == ToLowerCase(f.symbol) = S_fee \/ f.assetType = S_expense
IsTax(f) == f.assetType = S_tax \/ f.txType = S_withholding_tax
IsDividend(f) ==
    \/ f.assetType = S_cash_dividends \/ f.assetType = S_dividend
    \/ f.txType = S_cash_dividends \/ f.txType = S_dividend
IsTradeAsset(f) == f.assetType \in {S_stock, S_etf, S_equity}
IsTradeAction(f) == f.txType \in {S_buy, S_sell, S_transfer_in, S_transfer_out}
\* faulty variant of the trade test: no quantity threshold
IsTrade_NoQuantityTest(f) ==
    /\ IsTradeAsset(f) \/ IsTradeAction(f)
    /\ Gt(f.price, Zero)

IsTrade(f) ==
    /\ IsTradeAsset(f) \/ IsTradeAction(f)
    /\ Gt(MathAbs(f.qty), QtyEps)
    /\ Gt(f.price, Zero)

\* faulty variant of the rule order: the tax test before the fee test
Category_TaxBeforeFee(f) ==
    IF IsCash(f) THEN "cash"
    ELSE IF IsTax(f) THEN "tax"
    ELSE IF IsFee(f) THEN "fee"
    ELSE IF IsDividend(f) THEN "dividend"
    ELSE IF IsTrade(f) THEN "trade"
    ELSE "skipped"

\* the branch of the callback a record takes: the first test that succeeds
Category(f) ==
    IF IsCash(f) THEN "cash"
    ELSE IF IsFee(f) THEN "fee"
    ELSE IF IsTax(f) THEN "tax"
    ELSE IF IsDividend(f) THEN "dividend"
    ELSE IF IsTrade(f) THEN "trade"
    ELSE "skipped"

\* faulty variant of the fee record: the amount multiplied by the quantity,
\* as for a dividend
FeeRecord_TimesQuantity(f, i) ==
    [id |-> <<"fee", i>>, type |-> "Transaction Fee",
     amount |-> MathAbs(Mul(f.price, f.qty)), currency |-> f.ccy, date |-> f.date]

FeeRecord(f, i) ==
    [id |-> <<"fee", i>>, type |-> "Transaction Fee", amount |-> MathAbs(f.price),
     currency |-> f.ccy, date |-> f.date]

TaxRecord(f, i) ==
    [id |-> <<"tax", i>>, type |-> "Withholding Tax", amount |-> MathAbs(f.price),
     currency |-> f.ccy, date |-> f.date, symbol |-> f.symbol]

\* faulty variant of the dividend amount: the quantity is ignored only when
\* it is exactly zero
DividendAmount_ZeroTest(f) ==
    IF f.qty = Zero THEN MathAbs(f.price) ELSE MathAbs(Mul(f.price, f.qty))

DividendAmount(f) ==
    IF Lt(MathAbs(f.qty), DivQtyEps) THEN MathAbs(f.price)
    ELSE MathAbs(Mul(f.price, f.qty))

DividendEmitted(f) == Gt(DividendAmount(f), AmtEps)

DividendRecord(f, i) ==
    [id |-> <<"div", i>>, symbol |-> SplitFirst(f.symbol), fullSymbol |-> f.symbol,
     amount |-> DividendAmount(f), currency |-> f.ccy, date |-> f.date]

\* faulty variant of the direction: a positive quantity makes a buy
\* whatever the transaction type
IsBuy_SignFirst(f) ==
    Gt(f.qty, Zero) \/ f.txType = S_buy \/ f.txType = S_transfer_in

IsBuy(f) ==
    IF f.txType = S_sell \/ f.txType = S_transfer_out THEN FALSE
    ELSE IF f.txType = S_buy \/ f.txType = S_transfer_in THEN TRUE
    ELSE Gt(f.qty, Zero)

Exchange(symbol) ==
    IF Includes(symbol, ":") THEN ToUpperCase(SplitSecond(symbol)) ELSE <<>>

TradeRecord(f, i) ==
    [id |-> <<"trade", i>>, symbol |-> SplitFirst(f.symbol), fullSymbol |-> f.symbol,
     type |-> IF IsBuy(f) THEN "buy" ELSE "sell", shares |-> MathAbs(f.qty),
     price |-> f.price, date |-> f.date, currency |-> f.ccy,
     exchange |-> Exchange(f.symbol), rawQty |-> f.qty, rawTxType |-> f.rawTxType]

\* firstBuyDate: null
NoDate == 0 - 1

NewPosition(f) ==
    [symbol |-> SplitFirst(f.symbol), fullSymbol |-> f.symbol,
     type |-> IF f.assetType = S_etf THEN "ETF" ELSE "Stock",
     shares |-> Zero, totalCost |-> Zero, avgPrice |-> Zero, currency |-> f.ccy,
     exchange |-> Exchange(f.symbol), firstBuyDate |-> NoDate]

\* faulty variant of the isBuy branch: the first buy date is set again when
\* the position had been sold to zero
BuyInto_ResetsDateWhenEmpty(pos, absQty, price, date) ==
    LET shares    == Add(pos.shares, absQty)
        totalCost == Add(pos.totalCost, Mul(absQty, price))
    IN  [pos EXCEPT !.shares = shares,
                    !.totalCost = totalCost,
                    !.avgPrice = IF Gt(shares, Zero) THEN Div(totalCost, shares)
                                 ELSE Zero,
                    !.firstBuyDate = IF pos.firstBuyDate = NoDate \/ pos.shares = Zero
                                     THEN date ELSE pos.firstBuyDate]

\* faulty variant of the isBuy branch: the average is overwritten by the
\* price of the last buy instead of being recomputed from the totals
BuyInto_LastPrice(pos, absQty, price, date) ==
    [pos EXCEPT !.shares = Add(pos.shares, absQty),
                !.totalCost = Add(pos.totalCost, Mul(absQty, price)),
                !.avgPrice = price,
                !.firstBuyDate = IF pos.firstBuyDate = NoDate THEN date
                                 ELSE pos.firstBuyDate]

\* the isBuy branch
BuyInto(pos, absQty, price, date) ==
    LET shares    == Add(pos.shares, absQty)
        totalCost == Add(pos.totalCost, Mul(absQty, price))
    IN  [pos EXCEPT !.shares = shares,
                    !.totalCost = totalCost,
                    !.avgPrice = IF Gt(shares, Zero) THEN Div(totalCost, shares)
                                 ELSE Zero,
                    !.firstBuyDate = IF pos.firstBuyDate = NoDate THEN date
                                     ELSE pos.firstBuyDate]

\* faulty variant of the sell branch: any sale empties the position
SellFrom_SellsAll(pos, absQty) ==
    LET costSold == Mul(absQty, pos.avgPrice)
    IN  [pos EXCEPT !.shares = Zero,
                    !.totalCost = MathMax(Zero, Sub(pos.totalCost, costSold))]

\* faulty variant of the sell branch: totalCost is not clamped at zero
SellFrom_UnclampedCost(pos, absQty) ==
    LET costSold == Mul(absQty, pos.avgPrice)
    IN  [pos EXCEPT !.shares = MathMax(Zero, Sub(pos.shares, absQty)),
                    !.totalCost = Sub(pos.totalCost, costSold)]

\* faulty variant of the sell branch: shares are not clamped at zero
SellFrom_UnclampedShares(pos, absQty) ==
    LET costSold == Mul(absQty, pos.avgPrice)
    IN  [pos EXCEPT !.shares = Sub(pos.shares, absQty),
                    !.totalCost = MathMax(Zero, Sub(pos.totalCost, costSold))]

\* faulty variant of the sell branch: the average is recomputed from the
\* totals, as on a buy
SellFrom_RecomputesAverage(pos, absQty) ==
    LET costSold  == Mul(absQty, pos.avgPrice)
        shares    == MathMax(Zero, Sub(pos.shares, absQty))
        totalCost == MathMax(Zero, Sub(pos.totalCost, costSold))
    IN  [pos EXCEPT !.shares = shares,
                    !.totalCost = totalCost,
                    !.avgPrice = IF Gt(shares, Zero) THEN Div(totalCost, shares)
                                 ELSE Zero]

\* faulty variant of the sell branch: the shares are reduced but the cost of
\* the sold shares is left in totalCost
SellFrom_KeepsCost(pos, absQty) ==
    [pos EXCEPT !.shares = MathMax(Zero, Sub(pos.shares, absQty))]

\* the else (sell) branch
SellFrom(pos, absQty) ==
    LET costSold == Mul(absQty, pos.avgPrice)
    IN  [pos EXCEPT !.shares = MathMax(Zero, Sub(pos.shares, absQty)),
                    !.totalCost = MathMax(Zero, Sub(pos.totalCost, costSold))]

HasPosition(map, sym) == \E k \in 1..Len(map) : map[k].symbol = sym
PositionIndex(map, sym) == CHOOSE k \in 1..Len(map) : map[k].symbol = sym

\* positionsMap after a trade record: the position is created on the first
\* trade of its clean symbol, then bought into or sold from
ApplyTrade(map, f) ==
    LET sym == SplitFirst(f.symbol)
        m1  == IF HasPosition(map, sym) THEN map ELSE Append(map, NewPosition(f))
        k   == PositionIndex(m1, sym)
    IN  [m1 EXCEPT ![k] = IF IsBuy(f) THEN BuyInto(m1[k], MathAbs(f.qty), f.price, f.date)
                          ELSE SellFrom(m1[k], MathAbs(f.qty))]

\* faulty variant of the counters: a skipped record is not counted
Bump_SkippedUncounted(st, field) ==
    IF field = "skipped" THEN st ELSE [st EXCEPT ![field] = st[field] + 1]

Bump(st, field) == [st EXCEPT ![field] = st[field] + 1]

IsOpen(p) == Gt(p.shares, QtyEps)

\* Object.values(positionsMap).filter(...).map(...)
OpenPositions(map) ==
    LET open == SelectSeq(map, IsOpen)
    IN  [i \in 1..Len(open) |->
            [id |-> i, symbol |-> open[i].symbol, fullSymbol |-> open[i].fullSymbol,
             name |-> open[i].symbol, type |-> open[i].type, shares |-> open[i].shares,
             avgPrice |-> open[i].avgPrice, currentPrice |-> open[i].avgPrice,
             currency |-> open[i].currency, exchange |-> open[i].exchange,
             purchaseDate |-> open[i].firstBuyDate]]

NoStats == [cash |-> 0, fees |-> 0, taxes |-> 0, dividends |-> 0, buys |-> 0,
            sells |-> 0, skipped |-> 0]

\* the dashboard before anything was loaded
NoDashboard == [rawTx |-> <<>>, trades |-> <<>>, fees |-> <<>>, dividends |-> <<>>,
                status |-> "idle"]

gainsVars == <<results, symbols, symIdx, symTrades, tIdx, lots, sells, symLocals,
               sale, auditLog>>

\* faulty variant of the entry: the positions map of the last call is kept
ProcessBegin_KeepsPositions ==
    /\ pc = "call"
    /\ sorted' = SortByDate(rawTransactions, TxDates(rawTransactions))
    /\ idx' = 0
    /\ positionsMap' = positionsMap
    /\ trades' = <<>>
    /\ fees' = <<>>
    /\ dividends' = <<>>
    /\ stats' = NoStats
    /\ pc' = "forEach"
    /\ UNCHANGED <<totalFees, totalDivs>>
    /\ UNCHANGED dashboard
    /\ UNCHANGED <<rawTransactions, positions, now, addTrade>>
    /\ UNCHANGED gainsVars

\* entry of processTransactions: the accumulators and the sorted copy
ProcessBegin ==
    /\ pc = "call"
    /\ sorted' = SortByDate(rawTransactions, TxDates(rawTransactions))
    /\ idx' = 0
    /\ positionsMap' = <<>>
    /\ trades' = <<>>
    /\ fees' = <<>>
    /\ dividends' = <<>>
    /\ stats' = NoStats
    /\ pc' = "forEach"
    /\ UNCHANGED <<totalFees, totalDivs>>
    /\ UNCHANGED dashboard
    /\ UNCHANGED <<rawTransactions, positions, now, addTrade>>
    /\ UNCHANGED gainsVars

\* one call of the forEach callback, on sorted[idx] (0-based)
ForEachTx ==
    /\ pc = "forEach"
    /\ idx < Len(sorted)
    /\ LET f == Fields(sorted[idx + 1])
           c == Category(f)
       IN  CASE c = "cash" ->
                 /\ stats' = Bump(stats, "cash")
                 /\ UNCHANGED <<fees, dividends, trades, positionsMap>>
             [] c = "fee" ->
                 /\ fees' = Append(fees, FeeRecord(f, idx))
                 /\ stats' = Bump(stats, "fees")
                 /\ UNCHANGED <<dividends, trades, positionsMap>>
             [] c = "tax" ->
                 /\ fees' = Append(fees, TaxRecord(f, idx))
                 /\ stats' = Bump(stats, "taxes")
                 /\ UNCHANGED <<dividends, trades, positionsMap>>
             [] c = "dividend" ->
                 /\ dividends' = IF DividendEmitted(f)
                                 THEN Append(dividends, DividendRecord(f, idx))
                                 ELSE dividends
                 /\ stats' = Bump(stats, "dividends")
                 /\ UNCHANGED <<fees, trades, positionsMap>>
             [] c = "trade" ->
                 /\ trades' = Append(trades, TradeRecord(f, idx))
                 /\ positionsMap' = ApplyTrade(positionsMap, f)
                 /\ stats' = Bump(stats, IF IsBuy(f) THEN "buys" ELSE "sells")
                 /\ UNCHANGED <<fees, dividends>>
             [] OTHER ->
                 /\ stats' = Bump(stats, "skipped")
                 /\ UNCHANGED <<fees, dividends, trades, positionsMap>>
    /\ idx' = idx + 1
    /\ UNCHANGED <<totalFees, totalDivs>>
    /\ UNCHANGED dashboard
    /\ UNCHANGED <<rawTransactions, pc, sorted, positions, now, addTrade>>
    /\ UNCHANGED gainsVars

\* faulty variant of the return: the fees of the dashboard are not replaced
ProcessReturn_KeepsFees ==
    /\ pc = "forEach"
    /\ idx = Len(sorted)
    /\ positions' = OpenPositions(positionsMap)
    /\ dashboard' = [rawTx |-> rawTransactions, trades |-> trades,
                     fees |-> dashboard.fees, dividends |-> dividends,
                     status |-> IF dashboard.status = "loading" THEN "success"
                                ELSE dashboard.status]
    /\ pc' = "metrics"
    /\ UNCHANGED <<totalFees, totalDivs>>
    /\ UNCHANGED <<rawTransactions, sorted, idx, positionsMap, trades, fees,
                   dividends, stats, now, addTrade>>
    /\ UNCHANGED gainsVars

\* the return of processTransactions and the caller's setPositions,
\* setTrades, setFees, setDividends, setStats
ProcessReturn ==
    /\ pc = "forEach"
    /\ idx = Len(sorted)
    /\ positions' = OpenPositions(positionsMap)
    /\ dashboard' = [rawTx |-> rawTransactions, trades |-> trades, fees |-> fees,
                     dividends |-> dividends,
                     status |-> IF dashboard.status = "loading" THEN "success"
                                ELSE dashboard.status]
    /\ pc' = "metrics"
    /\ UNCHANGED <<totalFees, totalDivs>>
    /\ UNCHANGED <<rawTransactions, sorted, idx, positionsMap, trades, fees,
                   dividends, stats, now, addTrade>>
    /\ UNCHANGED gainsVars

----------------------------------------------------------------------------
(* Live prices *)

\* PriceService.fetchAllPrices found no price for the symbol
NoQuote == [found |-> FALSE, price |-> Zero]

\* a price found for the symbol
Quote(p) == [found |-> TRUE, price |-> p]

\* setPositions(prev => prev.map(...)): a position whose symbol has a live
\* price takes it as currentPrice, the others stay as they are
WithLivePrices(ps, prices) ==
    [i \in 1..Len(ps) |->
        IF prices[ps[i].symbol].found
        THEN [ps[i] EXCEPT !.currentPrice = prices[ps[i].symbol].price]
        ELSE ps[i]]

----------------------------------------------------------------------------
(* Currency *)

\* EUR_RATE = { USD: 0.92, EUR: 1, GBP: 1.17 }
HasEurRate(ccy) == ccy \in {S_USD, S_EUR, S_GBP}
EurRate(ccy) ==
    IF ccy = S_USD THEN Rat(92, 100)
    ELSE IF ccy = S_GBP THEN Rat(117, 100)
    ELSE Num(1)

\* faulty variant of the rate lookup: an unknown code is taken at par
RateOrDefault_AtPar(ccy) == IF HasEurRate(ccy) THEN EurRate(ccy) ELSE Num(1)

\* (EUR_RATE[ccy] || 0.92)
RateOrDefault(ccy) == IF HasEurRate(ccy) THEN EurRate(ccy) ELSE Rat(92, 100)

toEUR(amt, ccy) == IF ccy = S_EUR THEN amt ELSE Mul(amt, RateOrDefault(ccy))

\* fees.reduce((s, f) => s + toEUR(f.amount, f.currency), 0), and the same
\* over the dividends
RECURSIVE SumEUR(_, _)
SumEUR(rs, i) ==
    IF i > Len(rs) THEN Zero
    ELSE Add(toEUR(rs[i].amount, rs[i].currency), SumEUR(rs, i + 1))

\* the dashboard's totals of the fees and of the dividends, in EUR
Metrics ==
    /\ pc = "metrics"
    /\ totalFees' = SumEUR(fees, 1)
    /\ totalDivs' = SumEUR(dividends, 1)
    /\ pc' = "gains"
    /\ UNCHANGED dashboard
    /\ UNCHANGED <<rawTransactions, sorted, idx, positionsMap, trades, fees,
                   dividends, stats, positions, now, addTrade>>
    /\ UNCHANGED gainsVars

----------------------------------------------------------------------------
(* gains: the FIFO replay *)

NoResults ==
    [bySymbol |-> <<>>, realized |-> Zero, unrealized |-> Zero, proceeds |-> Zero,
     costSold |-> Zero, shortRealized |-> Zero, longRealized |-> Zero,
     shortUnrealized |-> Zero, longUnrealized |-> Zero]

NoSale == [toSell |-> Zero, proceeds |-> Zero, costBasis |-> Zero, lotsUsed |-> <<>>,
           gain |-> Zero]

NoLocals == [ccy |-> S_EUR, curPrice |-> Zero, fullySold |-> TRUE,
             symRealized |-> Zero, symCostSold |-> Zero, symProceeds |-> Zero]

\* [...new Set(trades.map(t => t.symbol))]: first occurrences, in order
RECURSIVE Distinct(_)
Distinct(s) ==
    IF s = <<>> THEN <<>>
    ELSE LET front == Distinct(SubSeq(s, 1, Len(s) - 1))
         IN  IF \E i \in 1..Len(front) : front[i] = s[Len(s)] THEN front
             ELSE Append(front, s[Len(s)])

TradeSymbols(ts) == Distinct([i \in 1..Len(ts) |-> ts[i].symbol])

\* faulty variant of the per-symbol filter: the trades of every symbol
SymTrades_AllSymbols(ts, sym) == SortByDate(ts, TradeDates(ts))

\* trades.filter(t => t.symbol === sym).sort(by date)
SymTrades(ts, sym) ==
    LET OfSym(t) == t.symbol = sym
        mine == SelectSeq(ts, OfSym)
    IN  SortByDate(mine, TradeDates(mine))

CountType(ts, type) == Len(SelectSeq(ts, LAMBDA t : t.type = type))

\* faulty variant of the day count: rounded down
DaysBetween_Floor(later, earlier) ==
    (DateValue(later) - DateValue(earlier)) \div DayLength

\* Math.ceil((later - earlier) / 86400000)
DaysBetween(later, earlier) ==
    MathCeil(Rat(DateValue(later) - DateValue(earlier), DayLength))

\* more than this many days held: long term
LongTermDays == 365

\* faulty variant of the matching loop: a lot is emptied as soon as it is
\* touched, whatever part of it the sale used
RECURSIVE MatchLots_DropsTouchedLot(_, _, _, _, _)
MatchLots_DropsTouchedLot(ls, i, toSell, costBasis, lotsUsed) ==
    IF ~(i <= Len(ls) /\ Gt(toSell, QtyEps))
    THEN [lots |-> ls, toSell |-> toSell, costBasis |-> costBasis,
          lotsUsed |-> lotsUsed]
    ELSE IF Gt(ls[i].remaining, QtyEps)
    THEN LET use == MathMin(ls[i].remaining, toSell)
         IN  MatchLots_DropsTouchedLot([ls EXCEPT ![i].remaining = Zero],
                       i + 1, Sub(toSell, use),
                       Add(costBasis, Mul(use, ls[i].price)),
                       Append(lotsUsed, [date |-> ls[i].date, shares |-> use,
                                         price |-> ls[i].price]))
    ELSE MatchLots_DropsTouchedLot(ls, i + 1, toSell, costBasis, lotsUsed)

\* faulty variant of the matching loop: the newest lot is consumed first
RECURSIVE MatchLots_NewestFirst(_, _, _, _, _)
MatchLots_NewestFirst(ls, i, toSell, costBasis, lotsUsed) ==
    IF ~(i <= Len(ls) /\ Gt(toSell, QtyEps))
    THEN [lots |-> ls, toSell |-> toSell, costBasis |-> costBasis,
          lotsUsed |-> lotsUsed]
    ELSE LET k == Len(ls) + 1 - i
         IN  IF Gt(ls[k].remaining, QtyEps)
             THEN LET use == MathMin(ls[k].remaining, toSell)
                  IN  MatchLots_NewestFirst(
                          [ls EXCEPT ![k].remaining = Sub(ls[k].remaining, use)],
                          i + 1, Sub(toSell, use),
                          Add(costBasis, Mul(use, ls[k].price)),
                          Append(lotsUsed, [date |-> ls[k].date, shares |-> use,
                                            price |-> ls[k].price]))
             ELSE MatchLots_NewestFirst(ls, i + 1, toSell, costBasis, lotsUsed)

\* the for loop of the sell branch, from lot i (1-based) on
RECURSIVE MatchLots(_, _, _, _, _)
MatchLots(ls, i, toSell, costBasis, lotsUsed) ==
    IF ~(i <= Len(ls) /\ Gt(toSell, QtyEps))
    THEN [lots |-> ls, toSell |-> toSell, costBasis |-> costBasis,
          lotsUsed |-> lotsUsed]
    ELSE IF Gt(ls[i].remaining, QtyEps)
    THEN LET use == MathMin(ls[i].remaining, toSell)
         IN  MatchLots([ls EXCEPT ![i].remaining = Sub(ls[i].remaining, use)],
                       i + 1, Sub(toSell, use),
                       Add(costBasis, Mul(use, ls[i].price)),
                       Append(lotsUsed, [date |-> ls[i].date, shares |-> use,
                                         price |-> ls[i].price]))
    ELSE MatchLots(ls, i + 1, toSell, costBasis, lotsUsed)

\* const proceeds = t.shares * t.price
SaleProceeds(t) == Mul(t.shares, t.price)

\* faulty variant: a sale that matched no lot realizes nothing
SaleGain_MatchedOnly(proceeds, costBasis) ==
    IF costBasis = Zero THEN Zero ELSE Sub(proceeds, costBasis)

\* const gain = proceeds - costBasis
SaleGain(proceeds, costBasis) == Sub(proceeds, costBasis)

\* faulty variant: the warning test without the 0.00001 threshold
Unmatched_NoThreshold(toSell) == Gt(toSell, Zero)

\* if (toSell > 0.00001) log(WARNING ... unmatched)
Unmatched(toSell) == Gt(toSell, QtyEps)

FifoLines(lotsUsed) ==
    [k \in 1..Len(lotsUsed) |->
        [kind |-> "FIFO", shares |-> lotsUsed[k].shares, price |-> lotsUsed[k].price]]

\* entry of the gains computation over the dashboard's trades and positions
GainsBegin ==
    /\ pc = "gains"
    /\ results' = NoResults
    /\ symIdx' = 0
    /\ IF trades = <<>>
       THEN /\ auditLog' = <<[kind |-> "START", trades |-> 0]>>
            /\ symbols' = <<>>
            /\ pc' = "done"
       ELSE /\ auditLog' = <<[kind |-> "START", trades |-> Len(trades)],
                             [kind |-> "SYMBOLS", symbols |-> TradeSymbols(trades)]>>
            /\ symbols' = TradeSymbols(trades)
            /\ pc' = "symbol"
    /\ UNCHANGED <<totalFees, totalDivs>>
    /\ UNCHANGED dashboard
    /\ UNCHANGED <<rawTransactions, sorted, idx, positionsMap, trades, fees,
                   dividends, stats, positions, now, addTrade>>
    /\ UNCHANGED <<symTrades, tIdx, lots, sells, symLocals, sale>>

\* start of the symbols.forEach callback for the next symbol
GainsSymbolBegin ==
    /\ pc = "symbol"
    /\ symIdx < Len(symbols)
    /\ LET sym    == symbols[symIdx + 1]
           st     == SymTrades(trades, sym)
           hasPos == \E k \in 1..Len(positions) : positions[k].symbol = sym
           pos    == positions[CHOOSE k \in 1..Len(positions) :
                                  /\ positions[k].symbol = sym
                                  /\ \A j \in 1..(k - 1) : positions[j].symbol # sym]
       IN  /\ symTrades' = st
           /\ symLocals' =
                [ccy |-> IF hasPos /\ pos.currency # <<>> THEN pos.currency
                         ELSE IF st[1].currency # <<>> THEN st[1].currency
                         ELSE S_EUR,
                 curPrice |-> IF hasPos /\ pos.currentPrice.n # 0 THEN pos.currentPrice
                              ELSE IF hasPos /\ pos.avgPrice.n # 0 THEN pos.avgPrice
                              ELSE Zero,
                 fullySold |-> ~hasPos \/ Lt(pos.shares, QtyEps),
                 symRealized |-> Zero, symCostSold |-> Zero, symProceeds |-> Zero]
           /\ auditLog' = Append(auditLog,
                [kind |-> "SYMBOL", symbol |-> sym, buys |-> CountType(st, "buy"),
                 sells |-> CountType(st, "sell")])
    /\ lots' = <<>>
    /\ sells' = <<>>
    /\ tIdx' = 0
    /\ pc' = "trade"
    /\ UNCHANGED <<totalFees, totalDivs>>
    /\ UNCHANGED dashboard
    /\ UNCHANGED <<rawTransactions, sorted, idx, positionsMap, trades, fees,
                   dividends, stats, positions, now, addTrade>>
    /\ UNCHANGED <<results, symbols, symIdx, sale>>

\* faulty variant of the buy branch: a buy refills the last lot when that lot
\* was sold out
GainsBuy_RefillsEmptyLot ==
    /\ pc = "trade"
    /\ tIdx < Len(symTrades)
    /\ symTrades[tIdx + 1].type = "buy"
    /\ LET t == symTrades[tIdx + 1]
       IN  /\ lots' = IF lots # <<>> /\ lots[Len(lots)].remaining = Zero
                      THEN [lots EXCEPT ![Len(lots)].remaining = t.shares]
                      ELSE Append(lots, [date |-> t.date, shares |-> t.shares,
                                         remaining |-> t.shares, price |-> t.price])
           /\ auditLog' = Append(auditLog, [kind |-> "BUY", shares |-> t.shares,
                                            price |-> t.price, date |-> t.date])
    /\ tIdx' = tIdx + 1
    /\ UNCHANGED <<totalFees, totalDivs>>
    /\ UNCHANGED <<dashboard, addTrade>>
    /\ UNCHANGED <<rawTransactions, sorted, idx, positionsMap, trades, fees,
                   dividends, stats, positions, now, pc>>
    /\ UNCHANGED <<results, symbols, symIdx, symTrades, sells, symLocals, sale>>

\* symTrades.forEach callback, buy branch: a new lot at the end of the queue
GainsBuy ==
    /\ pc = "trade"
    /\ tIdx < Len(symTrades)
    /\ symTrades[tIdx + 1].type = "buy"
    /\ LET t == symTrades[tIdx + 1]
       IN  /\ lots' = Append(lots, [date |-> t.date, shares |-> t.shares,
                                    remaining |-> t.shares, price |-> t.price])
           /\ auditLog' = Append(auditLog, [kind |-> "BUY", shares |-> t.shares,
                                            price |-> t.price, date |-> t.date])
    /\ tIdx' = tIdx + 1
    /\ UNCHANGED <<totalFees, totalDivs>>
    /\ UNCHANGED <<dashboard, addTrade>>
    /\ UNCHANGED <<rawTransactions, sorted, idx, positionsMap, trades, fees,
                   dividends, stats, positions, now, pc>>
    /\ UNCHANGED <<results, symbols, symIdx, symTrades, sells, symLocals, sale>>

\* symTrades.forEach callback, sell branch: FIFO matching against the lots
GainsSell ==
    /\ pc = "trade"
    /\ tIdx < Len(symTrades)
    /\ symTrades[tIdx + 1].type = "sell"
    /\ LET t        == symTrades[tIdx + 1]
           proceeds == SaleProceeds(t)
           m        == MatchLots(lots, 1, t.shares, Zero, <<>>)
           gain     == SaleGain(proceeds, m.costBasis)
           gainEUR  == toEUR(gain, symLocals.ccy)
           days     == IF m.lotsUsed # <<>>
                       THEN DaysBetween(t.date, m.lotsUsed[1].date) ELSE 0
           isLong   == days > LongTermDays
       IN  /\ lots' = m.lots
           /\ sale' = [toSell |-> m.toSell, proceeds |-> proceeds,
                       costBasis |-> m.costBasis, lotsUsed |-> m.lotsUsed,
                       gain |-> gain]
           /\ auditLog' =
                auditLog
                \o <<[kind |-> "SELL", shares |-> t.shares, price |-> t.price,
                      date |-> t.date]>>
                \o FifoLines(m.lotsUsed)
                \o (IF Unmatched(m.toSell)
                    THEN <<[kind |-> "WARNING", unmatched |-> m.toSell]>> ELSE <<>>)
                \o <<[kind |-> "GAIN", ccy |-> symLocals.ccy, gain |-> gain,
                      gainEUR |-> gainEUR, days |-> days, isLong |-> isLong]>>
           /\ symLocals' =
                [symLocals EXCEPT
                    !.symRealized = Add(@, gainEUR),
                    !.symCostSold = Add(@, toEUR(m.costBasis, symLocals.ccy)),
                    !.symProceeds = Add(@, toEUR(proceeds, symLocals.ccy))]
           /\ results' =
                IF isLong
                THEN [results EXCEPT !.longRealized = Add(@, gainEUR)]
                ELSE [results EXCEPT !.shortRealized = Add(@, gainEUR)]
           /\ sells' = Append(sells, [date |-> t.date, shares |-> t.shares,
                                      price |-> t.price, gain |-> gainEUR,
                                      days |-> days, isLong |-> isLong])
    /\ tIdx' = tIdx + 1
    /\ UNCHANGED <<totalFees, totalDivs>>
    /\ UNCHANGED <<dashboard, addTrade>>
    /\ UNCHANGED <<rawTransactions, sorted, idx, positionsMap, trades, fees,
                   dividends, stats, positions, now, pc>>
    /\ UNCHANGED <<symbols, symIdx, symTrades>>

\* faulty variant of the unrealized-gain loop: the remaining shares and cost
\* also count the lots at or below the threshold, the buckets do not
RECURSIVE Unrealized_CountsDust(_, _, _, _, _, _)
Unrealized_CountsDust(ls, i, curPrice, ccy, today, acc) ==
    IF i > Len(ls) THEN acc
    ELSE LET unrealized == Sub(Mul(ls[i].remaining, curPrice),
                               Mul(ls[i].remaining, ls[i].price))
             days == DaysBetween(today, ls[i].date)
             counted == Gt(ls[i].remaining, QtyEps)
         IN  Unrealized_CountsDust(ls, i + 1, curPrice, ccy, today,
                [remShares |-> Add(acc.remShares, ls[i].remaining),
                 remCost   |-> Add(acc.remCost, Mul(ls[i].remaining, ls[i].price)),
                 long      |-> IF counted /\ days > LongTermDays
                               THEN Add(acc.long, toEUR(unrealized, ccy)) ELSE acc.long,
                 short     |-> IF counted /\ ~(days > LongTermDays)
                               THEN Add(acc.short, toEUR(unrealized, ccy)) ELSE acc.short])

\* faulty variant of the unrealized-gain loop: every lot is bucketed by the
\* age of the first lot
RECURSIVE Unrealized_AgeOfFirstLot(_, _, _, _, _, _)
Unrealized_AgeOfFirstLot(ls, i, curPrice, ccy, today, acc) ==
    IF i > Len(ls) THEN acc
    ELSE IF Gt(ls[i].remaining, QtyEps)
    THEN LET unrealized == Sub(Mul(ls[i].remaining, curPrice),
                               Mul(ls[i].remaining, ls[i].price))
             days == DaysBetween(today, ls[1].date)
         IN  Unrealized_AgeOfFirstLot(ls, i + 1, curPrice, ccy, today,
                [remShares |-> Add(acc.remShares, ls[i].remaining),
                 remCost   |-> Add(acc.remCost, Mul(ls[i].remaining, ls[i].price)),
                 long      |-> IF days > LongTermDays
                               THEN Add(acc.long, toEUR(unrealized, ccy)) ELSE acc.long,
                 short     |-> IF days > LongTermDays THEN acc.short
                               ELSE Add(acc.short, toEUR(unrealized, ccy))])
    ELSE Unrealized_AgeOfFirstLot(ls, i + 1, curPrice, ccy, today, acc)

\* the lots.forEach of the unrealized part, from lot i on; acc holds
\* remShares, remCost and the two unrealized buckets
RECURSIVE Unrealized(_, _, _, _, _, _)
Unrealized(ls, i, curPrice, ccy, today, acc) ==
    IF i > Len(ls) THEN acc
    ELSE IF Gt(ls[i].remaining, QtyEps)
    THEN LET unrealized == Sub(Mul(ls[i].remaining, curPrice),
                               Mul(ls[i].remaining, ls[i].price))
             days == DaysBetween(today, ls[i].date)
         IN  Unrealized(ls, i + 1, curPrice, ccy, today,
                [remShares |-> Add(acc.remShares, ls[i].remaining),
                 remCost   |-> Add(acc.remCost, Mul(ls[i].remaining, ls[i].price)),
                 long      |-> IF days > LongTermDays
                               THEN Add(acc.long, toEUR(unrealized, ccy)) ELSE acc.long,
                 short     |-> IF days > LongTermDays THEN acc.short
                               ELSE Add(acc.short, toEUR(unrealized, ccy))])
    ELSE Unrealized(ls, i + 1, curPrice, ccy, today, acc)

\* end of the symbols.forEach callback: unrealized gain of the remaining
\* lots, the symbol's entry and the portfolio totals
GainsSymbolEnd ==
    /\ pc = "trade"
    /\ tIdx = Len(symTrades)
    /\ LET sym == symbols[symIdx + 1]
           ccy == symLocals.ccy
           u   == Unrealized(lots, 1, symLocals.curPrice, ccy, now,
                             [remShares |-> Zero, remCost |-> Zero,
                              long |-> results.longUnrealized,
                              short |-> results.shortUnrealized])
           symUnrealized == toEUR(Sub(Mul(u.remShares, symLocals.curPrice), u.remCost), ccy)
       IN  /\ results' =
                [results EXCEPT
                    !.longUnrealized = u.long,
                    !.shortUnrealized = u.short,
                    !.bySymbol = Append(@,
                        [symbol |-> sym, currency |-> ccy,
                         fullySold |-> symLocals.fullySold,
                         realized |-> symLocals.symRealized,
                         unrealized |-> symUnrealized,
                         total |-> Add(symLocals.symRealized, symUnrealized),
                         proceeds |-> symLocals.symProceeds,
                         costSold |-> symLocals.symCostSold,
                         sellCount |-> Len(sells),
                         buyCount |-> CountType(symTrades, "buy"),
                         sells |-> sells,
                         remShares |-> u.remShares,
                         remCost |-> toEUR(u.remCost, ccy),
                         curVal |-> toEUR(Mul(u.remShares, symLocals.curPrice), ccy)]),
                    !.realized = Add(@, symLocals.symRealized),
                    !.unrealized = Add(@, symUnrealized),
                    !.proceeds = Add(@, symLocals.symProceeds),
                    !.costSold = Add(@, symLocals.symCostSold)]
           /\ auditLog' = Append(auditLog,
                [kind |-> "TOTAL", realized |-> symLocals.symRealized,
                 unrealized |-> symUnrealized])
    /\ symIdx' = symIdx + 1
    /\ pc' = "symbol"
    /\ UNCHANGED <<totalFees, totalDivs>>
    /\ UNCHANGED dashboard
    /\ UNCHANGED <<rawTransactions, sorted, idx, positionsMap, trades, fees,
                   dividends, stats, positions, now, addTrade>>
    /\ UNCHANGED <<symbols, symTrades, tIdx, lots, sells, symLocals, sale>>

\* after the last symbol: the totals line and the return of results
GainsReturn ==
    /\ pc = "symbol"
    /\ symIdx = Len(symbols)
    /\ auditLog' = Append(auditLog, [kind |-> "TOTALS", realized |-> results.realized,
                                     unrealized |-> results.unrealized])
    /\ pc' = "done"
    /\ UNCHANGED <<totalFees, totalDivs>>
    /\ UNCHANGED dashboard
    /\ UNCHANGED <<rawTransactions, sorted, idx, positionsMap, trades, fees,
                   dividends, stats, positions, now, addTrade>>
    /\ UNCHANGED <<results, symbols, symIdx, symTrades, tIdx, lots, sells,
                   symLocals, sale>>

----------------------------------------------------------------------------
(* processTransactions of the larger dashboard (second component of
   src/src/App.jsx): the same pipeline with its own rules *)

\* the locals of the forEach callback: no trimming, currency as stored
LegacyFields(tx) ==
    [symbol    |-> OrEmpty(tx.symbol),
     assetType |-> ToLowerCase(OrEmpty(tx.asset_type)),
     txType    |-> ToLowerCase(OrEmpty(tx.transaction_type)),
     qty       |-> OrZero(ParseFloat(tx.quantity)),
     price     |-> OrZero(ParseFloat(tx.price_per_unit)),
     ccy       |-> OrDefault(tx.currency, S_EUR),
     date      |-> tx.transaction_date]

LegacyIsCash(f) == ToLowerCase(f.symbol) = S_cash \/ f.assetType = S_cash
LegacyIsFee(f) == ToLowerCase(f.symbol) = S_fee \/ f.assetType = S_expense
LegacyIsTax(f) == f.assetType = S_tax \/ f.txType = S_withholding_tax
LegacyIsDividend(f) == f.assetType = S_cash_dividends \/ f.txType = S_cash_dividends

\* isTrade && pricePerUnit > 0
LegacyIsTrade(f) ==
    /\ \/ f.assetType \in {S_stock, S_etf, S_equity}
       \/ f.txType \in {S_buy, S_sell, S_transfer_in, S_transfer_out}
    /\ Gt(f.price, Zero)

LegacyIsBuy(f) == Gt(f.qty, Zero) \/ f.txType = S_buy \/ f.txType = S_transfer_in
LegacyIsSell(f) == Lt(f.qty, Zero) \/ f.txType = S_sell \/ f.txType = S_transfer_out

\* the branch of the callback a record takes; a trade record with quantity 0
\* returns before anything is recorded
LegacyCategory(f) ==
    IF LegacyIsCash(f) THEN "cash"
    ELSE IF LegacyIsFee(f) THEN "fee"
    ELSE IF LegacyIsTax(f) THEN "tax"
    ELSE IF LegacyIsDividend(f) THEN "dividend"
    ELSE IF LegacyIsTrade(f) /\ MathAbs(f.qty) # Zero THEN "trade"
    ELSE "none"

LegacyFeeRecord(f, i) ==
    [id |-> <<"fee", i>>, type |-> "Transaction Fee", amount |-> MathAbs(f.price),
     currency |-> f.ccy, date |-> f.date]

LegacyTaxRecord(f, i) ==
    [id |-> <<"tax", i>>, type |-> "Withholding Tax", amount |-> MathAbs(f.price),
     currency |-> f.ccy, date |-> f.date, symbol |-> f.symbol]

LegacyDividendAmount(f) ==
    IF f.qty = Zero THEN MathAbs(f.price) ELSE MathAbs(Mul(f.price, f.qty))

LegacyDividendRecord(f, i) ==
    [id |-> <<"div", i>>, symbol |-> SplitFirst(f.symbol), fullSymbol |-> f.symbol,
     amount |-> LegacyDividendAmount(f), currency |-> f.ccy, date |-> f.date,
     type |-> "Dividend"]

LegacyTradeRecord(f, i) ==
    [id |-> <<"trade", i>>, symbol |-> SplitFirst(f.symbol), fullSymbol |-> f.symbol,
     type |-> IF LegacyIsBuy(f) THEN "buy" ELSE "sell", shares |-> MathAbs(f.qty),
     price |-> MathAbs(f.price), date |-> f.date, fee |-> Zero, currency |-> f.ccy,
     exchange |-> Exchange(f.symbol), originalType |-> f.txType]

LegacyNewPosition(f) ==
    [symbol |-> SplitFirst(f.symbol), fullSymbol |-> f.symbol,
     type |-> IF f.assetType = S_etf THEN "ETF" ELSE "Stock",
     shares |-> Zero, totalCost |-> Zero, avgPrice |-> Zero, currency |-> f.ccy,
     exchange |-> Exchange(f.symbol), trades |-> <<>>, firstBuyDate |-> NoDate]

\* the isBuy branch
LegacyBuyInto(pos, absQty, price, date) ==
    LET totalCost == Add(pos.totalCost, Mul(absQty, price))
        shares    == Add(pos.shares, absQty)
    IN  [pos EXCEPT !.shares = shares,
                    !.totalCost = totalCost,
                    !.avgPrice = IF Gt(shares, Zero) THEN Div(totalCost, shares)
                                 ELSE Zero,
                    !.firstBuyDate = IF pos.firstBuyDate = NoDate THEN date
                                     ELSE pos.firstBuyDate]

\* the else-if isSell branch: avgPrice stays the same
LegacySellFrom(pos, absQty) ==
    LET costBasisSold == Mul(absQty, pos.avgPrice)
    IN  [pos EXCEPT !.shares = MathMax(Zero, Sub(pos.shares, absQty)),
                    !.totalCost = MathMax(Zero, Sub(pos.totalCost, costBasisSold))]

LegacyApplyTrade(map, f, trade) ==
    LET sym == SplitFirst(f.symbol)
        m1  == IF HasPosition(map, sym) THEN map ELSE Append(map, LegacyNewPosition(f))
        k   == PositionIndex(m1, sym)
        p1  == IF LegacyIsBuy(f)
               THEN LegacyBuyInto(m1[k], MathAbs(f.qty), MathAbs(f.price), f.date)
               ELSE IF LegacyIsSell(f) THEN LegacySellFrom(m1[k], MathAbs(f.qty))
               ELSE m1[k]
    IN  [m1 EXCEPT ![k] = [p1 EXCEPT !.trades = Append(p1.trades, trade)]]

LegacyIsOpen(p) == Gt(p.shares, Rat(1, 10000))

\* Object.values(positions).filter(...).map(...)
LegacyPositionsArray(map) ==
    LET open == SelectSeq(map, LegacyIsOpen)
    IN  [i \in 1..Len(open) |->
            [id |-> i, symbol |-> open[i].symbol, fullSymbol |-> open[i].fullSymbol,
             name |-> open[i].symbol, type |-> open[i].type, shares |-> open[i].shares,
             avgPrice |-> open[i].avgPrice, currentPrice |-> open[i].avgPrice,
             currency |-> open[i].currency, dividendYield |-> Zero,
             exchange |-> open[i].exchange, purchaseDate |-> open[i].firstBuyDate,
             totalCost |-> open[i].totalCost]]

\* entry: the accumulators and the sorted copy
LegacyProcessBegin ==
    /\ pc = "legacyCall"
    /\ sorted' = SortByDate(rawTransactions, TxDates(rawTransactions))
    /\ idx' = 0
    /\ positionsMap' = <<>>
    /\ trades' = <<>>
    /\ fees' = <<>>
    /\ dividends' = <<>>
    /\ pc' = "legacyForEach"
    /\ UNCHANGED <<totalFees, totalDivs>>
    /\ UNCHANGED dashboard
    /\ UNCHANGED <<rawTransactions, stats, positions, now, addTrade>>
    /\ UNCHANGED gainsVars

\* one call of the forEach callback, on sorted[idx] (0-based)
LegacyForEachTx ==
    /\ pc = "legacyForEach"
    /\ idx < Len(sorted)
    /\ LET f == LegacyFields(sorted[idx + 1])
           c == LegacyCategory(f)
       IN  CASE c = "fee" ->
                 /\ fees' = Append(fees, LegacyFeeRecord(f, idx))
                 /\ UNCHANGED <<dividends, trades, positionsMap>>
             [] c = "tax" ->
                 /\ fees' = Append(fees, LegacyTaxRecord(f, idx))
                 /\ UNCHANGED <<dividends, trades, positionsMap>>
             [] c = "dividend" ->
                 /\ dividends' = Append(dividends, LegacyDividendRecord(f, idx))
                 /\ UNCHANGED <<fees, trades, positionsMap>>
             [] c = "trade" ->
                 /\ trades' = Append(trades, LegacyTradeRecord(f, idx))
                 /\ positionsMap' =
                        LegacyApplyTrade(positionsMap, f, LegacyTradeRecord(f, idx))
                 /\ UNCHANGED <<fees, dividends>>
             [] OTHER ->
                 UNCHANGED <<fees, dividends, trades, positionsMap>>
    /\ idx' = idx + 1
    /\ UNCHANGED <<totalFees, totalDivs>>
    /\ UNCHANGED dashboard
    /\ UNCHANGED <<rawTransactions, pc, sorted, stats, positions, now, addTrade>>
    /\ UNCHANGED gainsVars

\* the return of processTransactions
LegacyProcessReturn ==
    /\ pc = "legacyForEach"
    /\ idx = Len(sorted)
    /\ positions' = LegacyPositionsArray(positionsMap)
    /\ pc' = "legacyMetrics"
    /\ UNCHANGED <<totalFees, totalDivs>>
    /\ UNCHANGED dashboard
    /\ UNCHANGED <<rawTransactions, sorted, idx, positionsMap, trades, fees,
                   dividends, stats, now, addTrade>>
    /\ UNCHANGED gainsVars

\* APIService.getExchangeRate
LegacyGetExchangeRate(from, to) ==
    IF from = to THEN Num(1)
    ELSE IF from = S_USD THEN Rat(9211, 10000) ELSE Rat(10856, 10000)

LegacyToEUR(value, currency) ==
    IF currency = S_EUR THEN value
    ELSE Mul(value, LegacyGetExchangeRate(S_USD, S_EUR))

\* the fees.forEach of totalFeesEUR
RECURSIVE LegacySumEUR(_, _)
LegacySumEUR(rs, i) ==
    IF i > Len(rs) THEN Zero
    ELSE Add(LegacyToEUR(rs[i].amount, rs[i].currency), LegacySumEUR(rs, i + 1))

\* totalFeesEUR of the larger dashboard; its trades carry a fee of 0, which
\* the trades.forEach skips
LegacyTotalFeesEUR ==
    /\ pc = "legacyMetrics"
    /\ totalFees' = LegacySumEUR(fees, 1)
    /\ pc' = "legacyDone"
    /\ UNCHANGED <<rawTransactions, sorted, idx, positionsMap, trades, fees,
                   dividends, stats, positions, totalDivs, dashboard, now, addTrade>>
    /\ UNCHANGED gainsVars

\* the trade history tab of the larger dashboard: trades.sort orders the
\* array of the state itself, newest first
LegacyRenderTrades ==
    /\ pc = "legacyDone"
    /\ trades' = SortByDate(trades,
                     [i \in 1..Len(trades) |-> 0 - DateValue(trades[i].date)])
    /\ UNCHANGED <<rawTransactions, pc, sorted, idx, positionsMap, fees,
                   dividends, stats, positions, totalFees, totalDivs, dashboard,
                   now, addTrade>>
    /\ UNCHANGED gainsVars

----------------------------------------------------------------------------
(* recordTransaction of the add-trade page (src/services/portfolio.js) *)

S_crypto == <<"c", "r", "y", "p", "t", "o">>

\* ToNumber, as Math.abs applies it to its argument: a number is itself, a
\* blank string is 0, a string that is a decimal literal is its value and
\* any other string is NaN
ToNumber(x) ==
    CASE x.t = "number" -> x.num
      [] x.t = "string" ->
            LET t == Trim(x.str)
                u == IF t # <<>> /\ t[1] \in {"-", "+"} THEN Tail(t) ELSE t
                k == LeadingDigits(u)
                f == IF Len(u) > k /\ u[k + 1] = "." THEN SubSeq(u, k + 2, Len(u))
                     ELSE <<>>
                m == LeadingDigits(f)
                whole == \/ k > 0 /\ Len(u) = k
                         \/ k + m > 0 /\ Len(u) > k /\ u[k + 1] = "."
                            /\ Len(u) = k + 1 + m
            IN  IF t = <<>> THEN Zero
                ELSE IF whole THEN ParseDecimal(t) ELSE NaN
      [] OTHER -> Zero

\* faulty variant of the quantity: a sell negates the quantity passed in
RecordedQuantity_NegatesSell(tradeData) ==
    IF tradeData.type = S_sell
    THEN Neg(ToNumber(tradeData.quantity))
    ELSE MathAbs(ToNumber(tradeData.quantity))

\* the quantity recordTransaction stores
RecordedQuantity(tradeData) ==
    IF tradeData.type = S_sell
    THEN Neg(MathAbs(ToNumber(tradeData.quantity)))
    ELSE MathAbs(ToNumber(tradeData.quantity))

\* the row recordTransaction hands to insert; user is what getUser answered
InsertedRow(tradeData, user) ==
    [symbol |-> ToUpperCase(tradeData.symbol),
     quantity |-> RecordedQuantity(tradeData),
     price_per_unit |-> tradeData.price_per_unit,
     asset_type |-> tradeData.asset_type,
     user_id |-> IF user.signedIn THEN user.id ELSE Null]

\* what a call that threw returns: nothing; a call that returned hands back
\* the data of the response, the stored rows or none of them (null)
NoData == [returned |-> FALSE, rows |-> <<>>]

\* the add-trade page before anything was submitted
NoAddTrade ==
    [table |-> <<>>, tradeData |-> Null, row |-> Null, outcome |-> "none",
     data |-> NoData, route |-> "/add-trade"]

----------------------------------------------------------------------------
(* Inputs *)

Raw(sym, at, tt, q, p, ccy) ==
    [symbol |-> sym, asset_type |-> at, transaction_type |-> tt, quantity |-> q,
     price_per_unit |-> p, currency |-> ccy, transaction_date |-> 0]

SymA == <<"A">>
SymB == <<"B", ":", "n", "y">>
T_Stock == <<"S", "t", "o", "c", "k">>
T_ETF == <<"E", "T", "F">>
T_Buy == <<"B", "u", "y">>
T_Sell == <<"S", "e", "l", "l">>
C_usd == <<"u", "s", "d">>

\* whole-share trades: symbol A typed Buy / Sell with the sign convention of
\* the stored quantity, symbol B untyped (direction from the sign) in USD
WholeTrades ==
    {Raw(SymA, T_Stock, T_Buy, JNum(Num(10)), JNum(Num(p)), S_EUR) : p \in {100, 120}}
    \cup {Raw(SymA, T_Stock, T_Sell, JNum(Num(-q)), JNum(Num(150)), S_EUR) : q \in {10, 15}}
    \cup {Raw(SymB, T_ETF, Null, JNum(Num(10)), JNum(Num(100)), C_usd),
          Raw(SymB, T_ETF, Null, JNum(Num(-15)), JNum(Num(150)), C_usd)}

\* trades of a few hundred-thousandths of a share, around the 0.00001 threshold
FineTrades ==
    {Raw(SymA, T_Stock, T_Buy, JNum(Rat(3, 100000)), JNum(Num(100)), S_EUR),
     Raw(SymA, T_Stock, T_Buy, JNum(Rat(2, 100000)), JNum(Num(120)), S_EUR)}
    \cup {Raw(SymA, T_Stock, T_Sell, JNum(Rat(-q, 200000)), JNum(Num(150)), S_EUR) :
            q \in {3, 4, 6}}

RichSymbols == {<<"C", "a", "s", "h">>, <<"F", "E", "E">>, SymA, <<" ", "A", ":", "x">>, Null}
RichAssetTypes ==
    {T_Stock, S_etf, S_equity, S_cash, <<"E", "x", "p", "e", "n", "s", "e">>, S_tax,
     <<"D", "i", "v", "i", "d", "e", "n", "d">>, S_cash_dividends,
     <<"b", "o", "n", "d">>, Null}
RichTxTypes ==
    {T_Buy, S_sell, S_transfer_in,
     <<"T", "r", "a", "n", "s", "f", "e", "r", " ", "O", "u", "t">>,
     S_withholding_tax, S_dividend,
     <<"C", "a", "s", "h", " ", "D", "i", "v", "i", "d", "e", "n", "d", "s">>,
     <<"s", "p", "l", "i", "t">>, <<>>, Null}
RichQuantities ==
    {JNum(Num(-10)), JNum(Zero), JNum(Rat(1, 100000)), JNum(Rat(1, 20000)),
     JNum(Num(10)), JNull, JStr(<<"n", "/", "a">>)}
RichPrices ==
    {JNum(Num(-50)), JNum(Zero), JNum(Rat(1, 2000)), JNum(Num(50)),
     JStr(<<"1", "2", ".", "5", "0", " ", "E", "U", "R">>), JStr(<<"n", "/", "a">>),
     JNull}

\* records of every category, with fields in mixed case, missing or
\* malformed: every combination of the three text fields with a few
\* quantities, and every combination of the two numeric fields with a few
\* texts
RichRecords ==
    {Raw(sym, at, tt, q, JNum(Num(50)), S_EUR) :
        sym \in RichSymbols, at \in RichAssetTypes, tt \in RichTxTypes,
        q \in {JNum(Num(-10)), JNum(Zero), JNum(Num(10))}}
    \cup
    {Raw(x[1], x[2], x[3], q, p, Null) :
        x \in {<<SymA, T_Stock, T_Buy>>, <<SymA, T_Stock, Null>>,
               <<SymA, Null, S_sell>>, <<SymA, S_etf, S_transfer_in>>,
               <<SymB, S_dividend, Null>>, <<SymA, Null, S_cash_dividends>>,
               <<SymA, S_tax, Null>>, <<SymA, S_expense, Null>>,
               <<SymA, <<"b", "o", "n", "d">>, Null>>},
        q \in RichQuantities, p \in RichPrices}

C_gbp == <<"g", "b", "p">>
C_CHF == <<"C", "H", "F">>

\* fees, a tax and dividends of 100 in currencies in and out of the rate
\* table, in upper and lower case, empty or missing
CurrencyRecords ==
    {Raw(SymA, S_expense, Null, JNum(Num(1)), JNum(Num(100)), ccy) :
        ccy \in {S_EUR, S_GBP, C_gbp, S_USD, C_CHF, <<>>, Null}}
    \cup {Raw(SymA, S_tax, Null, JNum(Num(1)), JNum(Num(100)), S_GBP)}
    \cup {Raw(SymA, S_dividend, Null, JNum(Num(1)), JNum(Num(100)), ccy) :
            ccy \in {S_EUR, S_GBP, C_CHF}}

\* days between consecutive records of an input list
DayGap == 200

DateAt(i) == (i - 1) * DayGap * DayLength

Dated(l) == [i \in 1..Len(l) |-> [l[i] EXCEPT !.transaction_date = DateAt(i)]]

ListsOver(S) == UNION {[1..n -> S] : n \in 0..MaxRecords}

InputLists ==
    {Dated(l) : l \in ListsOver(WholeTrades) \cup ListsOver(FineTrades)}
    \cup {Dated(<<r>>) : r \in RichRecords}
    \cup {Dated(l) : l \in UNION {[1..n -> CurrencyRecords] : n \in 1..2}}

\* the instant n days after the first one
Day(n) == n * DayLength

DatedTrade(tt, q, p, at) ==
    [Raw(SymA, T_Stock, tt, JNum(Num(q)), JNum(Num(p)), S_EUR)
        EXCEPT !.transaction_date = at]

\* trades of one symbol that carry their own dates: two buys at the same
\* instant, a buy 100 days later, and sells exactly 365 days, 365 days and
\* an hour, and 465 days after the first buy
DatedTrades ==
    {DatedTrade(T_Buy, 10, 100, 0), DatedTrade(T_Buy, 10, 120, 0),
     DatedTrade(T_Buy, 10, 120, Day(100)),
     DatedTrade(T_Sell, -15, 150, Day(365)), DatedTrade(T_Sell, -15, 150, Day(365) + 1),
     DatedTrade(T_Sell, -5, 120, Day(465))}

\* a fee in GBP and a dividend in USD between the trades
DatedOthers ==
    {[Raw(SymA, S_expense, Null, JNum(Num(1)), JNum(Num(-5)), S_GBP)
         EXCEPT !.transaction_date = Day(50)],
     [Raw(SymA, S_dividend, Null, JNum(Num(10)), JNum(Num(2)), S_USD)
         EXCEPT !.transaction_date = Day(200)]}

MaxDated == 3

\* lists of dated records in any order
DatedLists == UNION {[1..n -> DatedTrades \cup DatedOthers] : n \in 0..MaxDated}

\* Date.now(): 365 days, or 365 days and an hour, after the buy of day 100
NowChoices == {Day(465), Day(465) + 1}

----------------------------------------------------------------------------
(* Specification *)

Init ==
    /\ rawTransactions \in InputLists
    /\ pc = "call"
    /\ sorted = <<>>
    /\ idx = 0
    /\ positionsMap = <<>>
    /\ trades = <<>>
    /\ fees = <<>>
    /\ dividends = <<>>
    /\ stats = NoStats
    /\ positions = <<>>
    /\ results = NoResults
    /\ symbols = <<>>
    /\ symIdx = 0
    /\ symTrades = <<>>
    /\ tIdx = 0
    /\ lots = <<>>
    /\ sells = <<>>
    /\ symLocals = NoLocals
    /\ sale = NoSale
    /\ auditLog = <<>>
    /\ totalFees = Zero
    /\ totalDivs = Zero
    /\ dashboard = NoDashboard
    /\ addTrade = NoAddTrade
    /\ now = DateAt(MaxRecords + 2)

Next ==
    \/ ProcessBegin
    \/ ForEachTx
    \/ ProcessReturn
    \/ Metrics
    \/ GainsBegin
    \/ GainsSymbolBegin
    \/ GainsBuy
    \/ GainsSell
    \/ GainsSymbolEnd
    \/ GainsReturn

Spec == Init /\ [][Next]_vars

\* the prices a quote service may report: any number that is not zero
LivePrices == {Quote(Num(130)), Quote(Num(-5)), NoQuote}

\* fetchPrices, run after the positions were set and before the gains are
\* computed from them
FetchPrices ==
    /\ pc = "gains"
    /\ positions # <<>>
    /\ \E prices \in [{positions[i].symbol : i \in 1..Len(positions)} -> LivePrices] :
          positions' = WithLivePrices(positions, prices)
    /\ UNCHANGED <<totalFees, totalDivs>>
    /\ UNCHANGED dashboard
    /\ UNCHANGED <<rawTransactions, pc, sorted, idx, positionsMap, trades, fees,
                   dividends, stats, now, addTrade>>
    /\ UNCHANGED gainsVars

MaxQuoted == 2

\* the program with live prices, on short lists of whole-share trades
InitQuoted ==
    /\ rawTransactions \in {Dated(l) : l \in UNION {[1..n -> WholeTrades] : n \in 0..MaxQuoted}}
    /\ now = DateAt(MaxRecords + 2)
    /\ pc = "call"
    /\ sorted = <<>>
    /\ idx = 0
    /\ positionsMap = <<>>
    /\ trades = <<>>
    /\ fees = <<>>
    /\ dividends = <<>>
    /\ stats = NoStats
    /\ positions = <<>>
    /\ results = NoResults
    /\ symbols = <<>>
    /\ symIdx = 0
    /\ symTrades = <<>>
    /\ tIdx = 0
    /\ lots = <<>>
    /\ sells = <<>>
    /\ symLocals = NoLocals
    /\ sale = NoSale
    /\ auditLog = <<>>
    /\ totalFees = Zero
    /\ totalDivs = Zero
    /\ dashboard = NoDashboard
    /\ addTrade = NoAddTrade

NextQuoted ==
    \/ FetchPrices
    \/ Next

SpecQuoted == InitQuoted /\ [][NextQuoted]_vars

\* the same program on lists of dated trades given in any order
InitDated ==
    /\ rawTransactions \in DatedLists
    /\ now \in NowChoices
    /\ pc = "call"
    /\ sorted = <<>>
    /\ idx = 0
    /\ positionsMap = <<>>
    /\ trades = <<>>
    /\ fees = <<>>
    /\ dividends = <<>>
    /\ stats = NoStats
    /\ positions = <<>>
    /\ results = NoResults
    /\ symbols = <<>>
    /\ symIdx = 0
    /\ symTrades = <<>>
    /\ tIdx = 0
    /\ lots = <<>>
    /\ sells = <<>>
    /\ symLocals = NoLocals
    /\ sale = NoSale
    /\ auditLog = <<>>
    /\ totalFees = Zero
    /\ totalDivs = Zero
    /\ dashboard = NoDashboard
    /\ addTrade = NoAddTrade

SpecDated == InitDated /\ [][Next]_vars

\* what a fetch of the transactions may deliver: a buy and an oversell of
\* one symbol and a fee, in lists of any of them
RefreshRecords ==
    {Raw(SymA, T_Stock, T_Buy, JNum(Num(10)), JNum(Num(100)), S_EUR),
     Raw(SymA, T_Stock, T_Sell, JNum(Num(-15)), JNum(Num(150)), S_EUR),
     Raw(SymA, S_expense, Null, JNum(Num(1)), JNum(Num(100)), S_GBP)}

MaxFetched == 2

FetchedLists == {Dated(l) : l \in UNION {[1..n -> RefreshRecords] : n \in 0..MaxFetched}}

\* sync (and the load effect): the fetch throws, or delivers an empty list,
\* and nothing but the status is set; or it delivers records, which are
\* handed to processTransactions
Sync ==
    /\ pc = "done"
    /\ \E ok \in BOOLEAN, raw \in FetchedLists :
          IF ~ok
          THEN /\ dashboard' = [dashboard EXCEPT !.status = "error"]
               /\ UNCHANGED <<rawTransactions, pc>>
          ELSE IF raw = <<>>
          THEN /\ dashboard' = [dashboard EXCEPT !.status = "loading"]
               /\ UNCHANGED <<rawTransactions, pc>>
          ELSE /\ dashboard' = [dashboard EXCEPT !.status = "loading"]
               /\ rawTransactions' = raw
               /\ pc' = "call"
    /\ UNCHANGED <<totalFees, totalDivs>>
    /\ UNCHANGED <<sorted, idx, positionsMap, trades, fees, dividends, stats,
                   positions, now, addTrade>>
    /\ UNCHANGED gainsVars

\* the dashboard as mounted, before the first fetch
InitRefresh ==
    /\ rawTransactions = <<>>
    /\ now = DateAt(MaxRecords + 2)
    /\ pc = "done"
    /\ sorted = <<>>
    /\ idx = 0
    /\ positionsMap = <<>>
    /\ trades = <<>>
    /\ fees = <<>>
    /\ dividends = <<>>
    /\ stats = NoStats
    /\ positions = <<>>
    /\ results = NoResults
    /\ symbols = <<>>
    /\ symIdx = 0
    /\ symTrades = <<>>
    /\ tIdx = 0
    /\ lots = <<>>
    /\ sells = <<>>
    /\ symLocals = NoLocals
    /\ sale = NoSale
    /\ auditLog = <<>>
    /\ totalFees = Zero
    /\ totalDivs = Zero
    /\ dashboard = NoDashboard
    /\ addTrade = NoAddTrade

NextRefresh ==
    \/ Sync
    \/ Next

SpecRefresh == InitRefresh /\ [][NextRefresh]_vars

\* the trades a caller hands to recordTransaction: the form's strings with
\* the type of the toggle, and numbers or another type from other callers
FormQuantities ==
    {JStr(<<"5">>), JStr(<<"-", "5">>), JStr(<<"0", ".", "5">>), JNum(Num(-3))}
FormTypes == {S_buy, S_sell, T_Sell}
FormSymbols == {<<"b", "t", "c">>, <<"A", "m", "z", "n">>}
TradeDatas ==
    {[symbol |-> sym, quantity |-> q, price_per_unit |-> JStr(<<"1", "0", "0">>),
      asset_type |-> S_crypto, type |-> ty] :
        sym \in FormSymbols, q \in FormQuantities, ty \in FormTypes}
Users == {[signedIn |-> FALSE, id |-> Null], [signedIn |-> TRUE, id |-> <<"u", "1">>]}

MaxInserted == 1

\* handleSubmit: recordTransaction on the form's data, then the dashboard
\* when it returned and an alert on the same page when it threw. The insert
\* reports an error, or stores the row and answers with data, which is the
\* stored rows or null.
RecordTransaction ==
    /\ Len(addTrade.table) < MaxInserted
    /\ \E tradeData \in TradeDatas, user \in Users, error \in BOOLEAN,
          echo \in BOOLEAN :
          LET row == InsertedRow(tradeData, user)
          IN  addTrade' =
                 IF error
                 THEN [table |-> addTrade.table, tradeData |-> tradeData,
                       row |-> row, outcome |-> "thrown", data |-> NoData,
                       route |-> "/add-trade"]
                 ELSE [table |-> Append(addTrade.table, row),
                       tradeData |-> tradeData, row |-> row,
                       outcome |-> "returned",
                       data |-> [returned |-> TRUE,
                                 rows |-> IF echo THEN <<row>> ELSE <<>>],
                       route |-> "/dashboard"]
    /\ UNCHANGED <<rawTransactions, pc, sorted, idx, positionsMap, trades, fees,
                   dividends, stats, positions, totalFees, totalDivs, dashboard,
                   now>>
    /\ UNCHANGED gainsVars

\* the add-trade page as opened
InitRecord ==
    /\ rawTransactions = <<>>
    /\ now = DateAt(MaxRecords + 2)
    /\ pc = "done"
    /\ sorted = <<>>
    /\ idx = 0
    /\ positionsMap = <<>>
    /\ trades = <<>>
    /\ fees = <<>>
    /\ dividends = <<>>
    /\ stats = NoStats
    /\ positions = <<>>
    /\ results = NoResults
    /\ symbols = <<>>
    /\ symIdx = 0
    /\ symTrades = <<>>
    /\ tIdx = 0
    /\ lots = <<>>
    /\ sells = <<>>
    /\ symLocals = NoLocals
    /\ sale = NoSale
    /\ auditLog = <<>>
    /\ totalFees = Zero
    /\ totalDivs = Zero
    /\ dashboard = NoDashboard
    /\ addTrade = NoAddTrade

NextRecord == RecordTransaction

SpecRecord == InitRecord /\ [][NextRecord]_vars

\* the larger dashboard's processTransactions on the same inputs
LegacyInit ==
    /\ rawTransactions \in InputLists
    /\ pc = "legacyCall"
    /\ sorted = <<>>
    /\ idx = 0
    /\ positionsMap = <<>>
    /\ trades = <<>>
    /\ fees = <<>>
    /\ dividends = <<>>
    /\ stats = NoStats
    /\ positions = <<>>
    /\ results = NoResults
    /\ symbols = <<>>
    /\ symIdx = 0
    /\ symTrades = <<>>
    /\ tIdx = 0
    /\ lots = <<>>
    /\ sells = <<>>
    /\ symLocals = NoLocals
    /\ sale = NoSale
    /\ auditLog = <<>>
    /\ totalFees = Zero
    /\ totalDivs = Zero
    /\ dashboard = NoDashboard
    /\ addTrade = NoAddTrade
    /\ now = DateAt(MaxRecords + 2)

LegacyNext ==
    \/ LegacyProcessBegin
    \/ LegacyForEachTx
    \/ LegacyProcessReturn
    \/ LegacyTotalFeesEUR
    \/ LegacyRenderTrades

SpecLegacy == LegacyInit /\ [][LegacyNext]_vars

----------------------------------------------------------------------------
(* Properties of the FIFO replay and of the weighted-average ledger *)

RECURSIVE SumRat(_)
SumRat(s) == IF s = <<>> THEN Zero ELSE Add(Head(s), SumRat(Tail(s)))

Remainings(ls) == [i \in 1..Len(ls) |-> ls[i].remaining]
TotalRemaining(ls) == SumRat(Remainings(ls))

\* the audit lines written for the symbol being replayed
CurrentAudit ==
    LET hs == {i \in 1..Len(auditLog) : auditLog[i].kind = "SYMBOL"}
    IN  IF hs = {} THEN <<>>
        ELSE SubSeq(auditLog, (CHOOSE i \in hs : \A j \in hs : j <= i) + 1,
                    Len(auditLog))

\* shares matched to the sales of the symbol so far (the FIFO audit lines)
MatchedShares ==
    LET fifo == SelectSeq(CurrentAudit, LAMBDA l : l.kind = "FIFO")
    IN  SumRat([i \in 1..Len(fifo) |-> fifo[i].shares])

\* shares of the Buy trades of the symbol replayed so far
BoughtShares ==
    LET buys == SelectSeq(SubSeq(symTrades, 1, tIdx), LAMBDA t : t.type = "buy")
    IN  SumRat([i \in 1..Len(buys) |-> buys[i].shares])

\* C1: for the symbol being replayed, after any number of its trades, the
\* remaining shares of its lots plus the shares matched to its sales equal
\* the shares of its Buy trades.
C1_FifoConservation ==
    pc \in {"trade", "symbol", "done"} =>
        Add(TotalRemaining(lots), MatchedShares) = BoughtShares

\* a sale that consumed two lots and left shares in the queue
C1_Witness ==
    /\ pc = "trade"
    /\ Len(sale.lotsUsed) >= 2
    /\ Gt(TotalRemaining(lots), Zero)
    /\ Gt(MatchedShares, Zero)

\* a step of the sell branch
SellStep ==
    /\ pc = "trade"
    /\ tIdx < Len(symTrades)
    /\ symTrades[tIdx + 1].type = "sell"
    /\ tIdx' = tIdx + 1

\* what a sale took from each lot, priced at the lot's unit cost
ConsumedCost(before, after) ==
    SumRat([i \in 1..Len(before) |->
              Mul(Sub(before[i].remaining, after[i].remaining), before[i].price)])

LotsOnlyDrained(before, after) ==
    /\ Len(after) = Len(before)
    /\ \A i \in 1..Len(before) :
         /\ after[i].date = before[i].date
         /\ after[i].shares = before[i].shares
         /\ after[i].price = before[i].price
         /\ Le(after[i].remaining, before[i].remaining)
         /\ Ge(after[i].remaining, Zero)

SaleAccounting ==
    LET t == symTrades[tIdx + 1]
    IN  /\ sale'.costBasis = ConsumedCost(lots, lots')
        /\ sells' = Append(sells, sells'[Len(sells')])
        /\ sells'[Len(sells')].gain =
              toEUR(Sub(Mul(t.shares, t.price), ConsumedCost(lots, lots')),
                    symLocals.ccy)
        /\ symLocals'.symRealized =
              Add(symLocals.symRealized, sells'[Len(sells')].gain)

\* C2 as stated: lots are consumed oldest first until the sold quantity is
\* satisfied or the lots are exhausted; a lot is touched only when every
\* earlier lot has no remaining shares; a partly consumed lot stays queued;
\* costBasis is the sum of consumed portion x unit cost and the realized
\* gain is proceeds - costBasis.
C2_AsStated ==
    [][SellStep =>
        /\ LotsOnlyDrained(lots, lots')
        /\ \A i \in 1..Len(lots) :
             lots'[i].remaining # lots[i].remaining =>
                \A j \in 1..(i - 1) : lots'[j].remaining = Zero
        /\ \/ sale'.toSell = Zero
           \/ \A i \in 1..Len(lots) : lots'[i].remaining = Zero
        /\ SaleAccounting]_vars

\* C2 (amended): the same, with "no remaining shares", "satisfied" and
\* "exhausted" read up to the 0.00001-share threshold: a lot is touched only
\* when every earlier lot has at most 0.00001 shares remaining, and the
\* matching stops when at most 0.00001 shares are left to sell or no lot has
\* more than 0.00001 shares.
C2_FifoOrder ==
    [][SellStep =>
        /\ LotsOnlyDrained(lots, lots')
        /\ \A i \in 1..Len(lots) :
             lots'[i].remaining # lots[i].remaining =>
                \A j \in 1..(i - 1) : Le(lots'[j].remaining, QtyEps)
        /\ \/ Le(sale'.toSell, QtyEps)
           \/ \A i \in 1..Len(lots) : Le(lots'[i].remaining, QtyEps)
        /\ SaleAccounting]_vars

\* a sale that emptied one lot, left the next partly consumed and did not
\* reach a third
C2_Witness ==
    /\ pc = "trade"
    /\ Len(lots) >= 2
    /\ Len(sale.lotsUsed) = 2
    /\ lots[1].remaining = Zero
    /\ Gt(lots[2].remaining, Zero)
    /\ Lt(lots[2].remaining, lots[2].shares)
    /\ sale.costBasis = Add(Mul(lots[1].shares, lots[1].price),
                            Mul(Sub(lots[2].shares, lots[2].remaining), lots[2].price))

\* C3: every open position of the ledger (shares > 0.00001) has
\* shares x avgPrice = totalCost within a relative error of 1e-6, after any
\* sequence of buys and sells, oversells included.
C3_AverageCostConsistent ==
    \A k \in 1..Len(positionsMap) :
        IsOpen(positionsMap[k]) =>
            Le(Mul(Num(1000000),
                   MathAbs(Sub(Mul(positionsMap[k].shares, positionsMap[k].avgPrice),
                               positionsMap[k].totalCost))),
               MathAbs(positionsMap[k].totalCost))

\* an open position bought again after an oversell, then partly sold
C3_Witness ==
    /\ idx = 4
    /\ Len(trades) = 4
    /\ \A i \in 1..4 : trades[i].symbol = trades[1].symbol
    /\ trades[1].type = "buy" /\ trades[2].type = "sell"
    /\ trades[3].type = "buy" /\ trades[4].type = "sell"
    /\ Gt(trades[2].shares, trades[1].shares)
    /\ IsOpen(positionsMap[1])
    /\ positionsMap[1].avgPrice = trades[3].price

ScenarioA ==
    Dated(<<Raw(SymA, T_Stock, T_Buy, JNum(Num(10)), JNum(Num(100)), S_EUR),
            Raw(SymA, T_Stock, T_Buy, JNum(Num(10)), JNum(Num(120)), S_EUR),
            Raw(SymA, T_Stock, T_Sell, JNum(Num(-15)), JNum(Num(150)), S_EUR)>>)

\* C4: Scenario A, [Buy 10@100, Buy 10@120, Sell 15@150] on one symbol:
\* the average cost after the two buys is 110; the sell consumes the 10
\* shares of lot 1 and 5 of lot 2, costBasis 1600, proceeds 2250, realized
\* gain 650, and lot 2 keeps 5 shares at unit cost 120.
C4_ScenarioA ==
    rawTransactions = ScenarioA =>
        /\ (pc = "forEach" /\ idx = 2 =>
               /\ Len(positionsMap) = 1
               /\ positionsMap[1].avgPrice = Num(110))
        /\ (pc \in {"trade", "symbol", "done"} /\ tIdx = 3 =>
               /\ sale.lotsUsed = <<[date |-> DateAt(1), shares |-> Num(10), price |-> Num(100)],
                                    [date |-> DateAt(2), shares |-> Num(5), price |-> Num(120)]>>
               /\ sale.costBasis = Num(1600)
               /\ sale.proceeds = Num(2250)
               /\ sale.gain = Num(650)
               /\ symLocals.symRealized = Num(650)
               /\ Len(lots) = 2
               /\ lots[1].remaining = Zero
               /\ lots[2].remaining = Num(5)
               /\ lots[2].price = Num(120))

C4_Witness == rawTransactions = ScenarioA /\ pc = "done" /\ tIdx = 3

WarningLogged ==
    \E i \in (Len(auditLog) + 1)..Len(auditLog') : auditLog'[i].kind = "WARNING"

UsedShares(lotsUsed) == SumRat([i \in 1..Len(lotsUsed) |-> lotsUsed[i].shares])
UsedCost(lotsUsed) ==
    SumRat([i \in 1..Len(lotsUsed) |-> Mul(lotsUsed[i].shares, lotsUsed[i].price)])

Oversell == SellStep /\ Gt(symTrades[tIdx + 1].shares, TotalRemaining(lots))

----------------------------------------------------------------------------
(* Properties of the classifier *)

\* a call of the forEach callback
ForEachStep == pc = "forEach" /\ idx < Len(sorted) /\ idx' = idx + 1

Counted(field) == stats' = [stats EXCEPT ![field] = stats[field] + 1]

Counters == {"cash", "fees", "taxes", "dividends", "buys", "sells", "skipped"}

Appended(before, after) ==
    Len(after) = Len(before) + 1 /\ SubSeq(after, 1, Len(before)) = before

\* C7: the classifier is a first-match-wins list Cash, Fee, Tax, Dividend,
\* Trade, Skipped: every record is counted in exactly one category, the
\* earliest whose rule it satisfies, and produces only that category's output.
C7_FirstMatchWins ==
    [][ForEachStep =>
        LET f == Fields(sorted[idx + 1])
        IN  /\ Cardinality({c \in Counters : stats'[c] # stats[c]}) = 1
            /\ \E c \in Counters : Counted(c)
            /\ IsCash(f) =>
                  /\ Counted("cash")
                  /\ UNCHANGED <<fees, dividends, trades, positionsMap>>
            /\ ~IsCash(f) /\ IsFee(f) =>
                  /\ Counted("fees")
                  /\ Appended(fees, fees')
                  /\ fees'[Len(fees')].type = "Transaction Fee"
                  /\ UNCHANGED <<dividends, trades, positionsMap>>
            /\ ~IsCash(f) /\ ~IsFee(f) /\ IsTax(f) =>
                  /\ Counted("taxes")
                  /\ Appended(fees, fees')
                  /\ fees'[Len(fees')].type = "Withholding Tax"
                  /\ UNCHANGED <<dividends, trades, positionsMap>>
            /\ ~IsCash(f) /\ ~IsFee(f) /\ ~IsTax(f) /\ IsDividend(f) =>
                  /\ Counted("dividends")
                  /\ dividends' = dividends \/ Appended(dividends, dividends')
                  /\ UNCHANGED <<fees, trades, positionsMap>>
            /\ ~IsCash(f) /\ ~IsFee(f) /\ ~IsTax(f) /\ ~IsDividend(f) /\ IsTrade(f) =>
                  /\ Counted("buys") \/ Counted("sells")
                  /\ Appended(trades, trades')
                  /\ UNCHANGED <<fees, dividends>>
            /\ ~IsCash(f) /\ ~IsFee(f) /\ ~IsTax(f) /\ ~IsDividend(f) /\ ~IsTrade(f) =>
                  /\ Counted("skipped")
                  /\ UNCHANGED <<fees, dividends, trades, positionsMap>>]_vars

\* a record with asset type 'expense' and transaction type 'withholding tax'
\* was recorded as a Transaction Fee
C7_Witness ==
    /\ pc = "forEach"
    /\ idx = 1
    /\ Fields(sorted[1]).assetType = S_expense
    /\ Fields(sorted[1]).txType = S_withholding_tax
    /\ ~IsCash(Fields(sorted[1]))
    /\ Len(fees) = 1
    /\ fees[1].type = "Transaction Fee"
    /\ stats.fees = 1
    /\ stats.taxes = 0

ReachesTradeRule(f) == ~IsCash(f) /\ ~IsFee(f) /\ ~IsTax(f) /\ ~IsDividend(f)

\* C8: a record that reaches the Trade rule becomes a trade exactly when
\* (asset type is stock, etf or equity, or transaction type is buy, sell,
\* transfer in or transfer out) and |quantity| > 0.00001 and price > 0;
\* otherwise it is Skipped and changes no position.  Every emitted trade has
\* shares = |quantity| > 0 and price > 0.
C8_TradeRule ==
    [][ForEachStep /\ ReachesTradeRule(Fields(sorted[idx + 1])) =>
        LET f == Fields(sorted[idx + 1])
        IN  IF /\ \/ f.assetType \in {S_stock, S_etf, S_equity}
                  \/ f.txType \in {S_buy, S_sell, S_transfer_in, S_transfer_out}
               /\ Gt(MathAbs(f.qty), Rat(1, 100000))
               /\ Gt(f.price, Zero)
            THEN /\ Appended(trades, trades')
                 /\ trades'[Len(trades')].shares = MathAbs(f.qty)
                 /\ trades'[Len(trades')].price = f.price
                 /\ Gt(trades'[Len(trades')].shares, Zero)
                 /\ Gt(trades'[Len(trades')].price, Zero)
            ELSE /\ trades' = trades
                 /\ positionsMap' = positionsMap
                 /\ Counted("skipped")]_vars

\* a stock buy record of exactly 0.00001 shares at a positive price was skipped
C8_Witness ==
    /\ pc = "forEach"
    /\ idx = 1
    /\ Fields(sorted[1]).assetType = S_stock
    /\ Fields(sorted[1]).txType = S_buy
    /\ Fields(sorted[1]).qty = Rat(1, 100000)
    /\ Gt(Fields(sorted[1]).price, Zero)
    /\ stats.skipped = 1
    /\ trades = <<>>
    /\ positionsMap = <<>>

\* C9: the direction of a trade is Sell for transaction type 'sell' or
\* 'transfer out' and Buy for 'buy' or 'transfer in', whatever the sign of
\* the quantity; for any other transaction type it is the sign of the
\* quantity (positive Buy, negative Sell).
C9_TradeDirection ==
    [][ForEachStep /\ Len(trades') = Len(trades) + 1 =>
        LET f == Fields(sorted[idx + 1])
            t == trades'[Len(trades')]
        IN  /\ f.txType \in {S_sell, S_transfer_out} => t.type = "sell"
            /\ f.txType \in {S_buy, S_transfer_in} => t.type = "buy"
            /\ f.txType \notin {S_sell, S_transfer_out, S_buy, S_transfer_in} =>
                  t.type = IF Gt(f.qty, Zero) THEN "buy" ELSE "sell"
            /\ t.type = "buy" => Counted("buys")
            /\ t.type = "sell" => Counted("sells")]_vars

\* a record typed 'sell' with a positive quantity became a Sell trade
C9_Witness ==
    /\ pc = "forEach"
    /\ idx = 1
    /\ Fields(sorted[1]).txType = S_sell
    /\ Gt(Fields(sorted[1]).qty, Zero)
    /\ Len(trades) = 1
    /\ trades[1].type = "sell"
    /\ stats.sells = 1

\* C10: for a record classified Dividend the amount is |price| when
\* |quantity| < 0.0001 and |price x quantity| otherwise, and a dividend
\* record is emitted only if that amount is above 0.001 (quantity 0 and
\* price 50 give a recorded amount of 50).
C10_DividendAmount ==
    [][ForEachStep /\ ~IsCash(Fields(sorted[idx + 1]))
                   /\ ~IsFee(Fields(sorted[idx + 1]))
                   /\ ~IsTax(Fields(sorted[idx + 1]))
                   /\ IsDividend(Fields(sorted[idx + 1])) =>
        LET f   == Fields(sorted[idx + 1])
            amt == IF Lt(MathAbs(f.qty), Rat(1, 10000)) THEN MathAbs(f.price)
                   ELSE MathAbs(Mul(f.price, f.qty))
        IN  /\ Gt(amt, Rat(1, 1000)) =>
                  /\ Appended(dividends, dividends')
                  /\ dividends'[Len(dividends')].amount = amt
            /\ ~Gt(amt, Rat(1, 1000)) => dividends' = dividends
            /\ f.qty = Zero /\ f.price = Num(50) =>
                  dividends'[Len(dividends')].amount = Num(50)]_vars

\* a dividend record with a quantity below 0.0001 but not zero was recorded
\* with the price alone as its amount
C10_Witness ==
    /\ pc = "forEach"
    /\ idx = 1
    /\ IsDividend(Fields(sorted[1]))
    /\ Fields(sorted[1]).qty = Rat(1, 20000)
    /\ Fields(sorted[1]).price = Num(50)
    /\ Len(dividends) = 1
    /\ dividends[1].amount = Num(50)

----------------------------------------------------------------------------
(* Properties of the fee and tax records and of the numeric parsing *)

\* C11: a record matched by the Fee rule yields a record of type
\* 'Transaction Fee' and one matched by the Tax rule a record of type
\* 'Withholding Tax' carrying the symbol, each with amount = |price| >= 0
\* whatever the sign of the price field; the quantity never enters the amount.
C11_FeeTaxMagnitude ==
    [][ForEachStep /\ ~IsCash(Fields(sorted[idx + 1]))
                   /\ (IsFee(Fields(sorted[idx + 1])) \/ IsTax(Fields(sorted[idx + 1]))) =>
        LET tx    == sorted[idx + 1]
            f     == Fields(tx)
            price == OrZero(ParseFloat(tx.price_per_unit))
            r     == fees'[Len(fees')]
        IN  /\ Appended(fees, fees')
            /\ r.type = IF IsFee(f) THEN "Transaction Fee" ELSE "Withholding Tax"
            /\ r.amount = IF Lt(price, Zero) THEN Neg(price) ELSE price
            /\ Ge(r.amount, Zero)
            /\ ~IsFee(f) => r.symbol = f.symbol]_vars

\* a fee record with a negative price and a quantity of 10 was recorded with
\* the magnitude of the price as its amount
C11_Witness ==
    /\ pc = "forEach"
    /\ idx = 1
    /\ IsFee(Fields(sorted[1]))
    /\ Fields(sorted[1]).price = Num(-50)
    /\ Fields(sorted[1]).qty = Num(10)
    /\ Len(fees) = 1
    /\ fees[1].type = "Transaction Fee"
    /\ fees[1].amount = Num(50)

\* a text that is a decimal numeral from its first to its last character
IsNumeral(s) ==
    LET u == IF s # <<>> /\ s[1] \in {"-", "+"} THEN Tail(s) ELSE s
        k == LeadingDigits(u)
    IN  \/ k > 0 /\ k = Len(u)
        \/ /\ Len(u) > k
           /\ u[k + 1] = "."
           /\ k + 1 + LeadingDigits(SubSeq(u, k + 2, Len(u))) = Len(u)
           /\ Len(u) > 1

\* a text that begins (after blanks and a sign) with a digit, or with a
\* point and a digit
BeginsWithNumber(s) ==
    \E i \in 1..Len(s) :
        /\ \A j \in 1..(i - 1) : s[j] = " "
        /\ LET t == SubSeq(s, i, Len(s))
               u == IF t[1] \in {"-", "+"} THEN Tail(t) ELSE t
           IN  /\ u # <<>>
               /\ \/ IsDigit(u[1])
                  \/ u[1] = "." /\ Len(u) > 1 /\ IsDigit(u[2])

\* a raw numeric field that holds no number: missing, or a text that is not
\* a numeral
Malformed(x) == x.t = "null" \/ (x.t = "string" /\ ~IsNumeral(x.str))

\* a raw numeric field in which no number can be read at all
Unreadable(x) == x.t = "null" \/ (x.t = "string" /\ ~BeginsWithNumber(x.str))

TradeLike(f) == ReachesTradeRule(f) /\ (IsTradeAsset(f) \/ IsTradeAction(f))

\* C12 as stated: a malformed (non-numeric or missing) quantity or price is
\* treated as 0, so a trade-like record with a malformed quantity or price is
\* Skipped and a dividend record with a malformed quantity uses |price|.
C12_AsStated ==
    [][ForEachStep =>
        LET tx == sorted[idx + 1]
            f  == Fields(tx)
        IN  /\ TradeLike(f) /\ (Malformed(tx.quantity) \/ Malformed(tx.price_per_unit)) =>
                  Counted("skipped") /\ trades' = trades /\ positionsMap' = positionsMap
            /\ ~IsCash(f) /\ ~IsFee(f) /\ ~IsTax(f) /\ IsDividend(f)
                 /\ Malformed(tx.quantity) /\ dividends' # dividends =>
                  dividends'[Len(dividends')].amount = MathAbs(f.price)]_vars

\* C12: a quantity or price that is missing or in which no number can be
\* read is treated as 0 and the record is classified on its merits: a
\* trade-like record is then Skipped and a dividend record with such a
\* quantity has |price| as its amount, recorded when above 0.001; a text
\* that begins with a number is read as that number.
C12_TolerantParsing ==
    [][ForEachStep =>
        LET tx == sorted[idx + 1]
            f  == Fields(tx)
        IN  /\ pc' = "forEach"
            /\ TradeLike(f) /\ (Unreadable(tx.quantity) \/ Unreadable(tx.price_per_unit)) =>
                  Counted("skipped") /\ trades' = trades /\ positionsMap' = positionsMap
            /\ ~IsCash(f) /\ ~IsFee(f) /\ ~IsTax(f) /\ IsDividend(f)
                 /\ Unreadable(tx.quantity) =>
                  /\ Counted("dividends")
                  /\ IF Gt(MathAbs(f.price), Rat(1, 1000))
                     THEN /\ Appended(dividends, dividends')
                          /\ dividends'[Len(dividends')].amount = MathAbs(f.price)
                     ELSE dividends' = dividends
            /\ tx.price_per_unit.t = "string" /\ BeginsWithNumber(tx.price_per_unit.str)
                 /\ TradeLike(f) /\ trades' # trades =>
                  /\ trades'[Len(trades')].price = ParseDecimal(tx.price_per_unit.str)
                  /\ Gt(trades'[Len(trades')].price, Zero)]_vars

\* a stock buy record whose quantity is the text 'n/a' was skipped
C12_Witness ==
    /\ pc = "forEach"
    /\ idx = 1
    /\ sorted[1].quantity = JStr(<<"n", "/", "a">>)
    /\ Fields(sorted[1]).assetType = S_stock
    /\ Fields(sorted[1]).txType = S_buy
    /\ Fields(sorted[1]).price = Num(50)
    /\ stats.skipped = 1
    /\ trades = <<>>

----------------------------------------------------------------------------
(* Properties of the position builder *)

\* a call of the forEach callback that records a trade
TradeStep == ForEachStep /\ Len(trades') = Len(trades) + 1

\* the trade recorded by the step
NewTrade == trades'[Len(trades')]

\* the position of a symbol in a positions map; before its first trade a
\* symbol holds nothing
Holding(map, sym) ==
    IF HasPosition(map, sym) THEN map[PositionIndex(map, sym)]
    ELSE [symbol |-> sym, shares |-> Zero, totalCost |-> Zero, avgPrice |-> Zero,
          firstBuyDate |-> NoDate]

\* every other position is left as it was
OthersUntouched(sym) ==
    \A k \in 1..Len(positionsMap) :
        positionsMap[k].symbol # sym => positionsMap'[k] = positionsMap[k]

\* dates of the buy trades of a symbol, in replay order
BuyDates(ts, sym) ==
    LET IsBuyOf(t) == t.symbol = sym /\ t.type = "buy"
        mine == SelectSeq(ts, IsBuyOf)
    IN  [i \in 1..Len(mine) |-> mine[i].date]

\* C13: on a Buy the position's shares increase by the trade's shares, its
\* totalCost by shares x price, its avgPrice becomes totalCost / shares, and
\* firstBuyDate is the date of the first Buy of the symbol: no later trade
\* changes it, also after the position was sold to zero and bought again.
C13_BuilderOnBuy ==
    [][TradeStep =>
        LET t   == NewTrade
            old == Holding(positionsMap, t.symbol)
            new == Holding(positionsMap', t.symbol)
        IN  /\ HasPosition(positionsMap', t.symbol)
            /\ OthersUntouched(t.symbol)
            /\ t.type = "buy" =>
                  /\ new.shares = Add(old.shares, t.shares)
                  /\ new.totalCost = Add(old.totalCost, Mul(t.shares, t.price))
                  /\ new.avgPrice = Div(new.totalCost, new.shares)
            /\ old.firstBuyDate # NoDate => new.firstBuyDate = old.firstBuyDate
            /\ new.firstBuyDate =
                  IF BuyDates(trades', t.symbol) = <<>> THEN NoDate
                  ELSE BuyDates(trades', t.symbol)[1]]_vars

\* a position was bought, sold to zero and bought again on a later date, and
\* still has the date of its first buy
C13_Witness ==
    /\ pc = "forEach"
    /\ Len(trades) = 3
    /\ \A i \in 1..3 : trades[i].symbol = trades[1].symbol
    /\ trades[1].type = "buy"
    /\ trades[2].type = "sell"
    /\ Ge(trades[2].shares, trades[1].shares)
    /\ trades[3].type = "buy"
    /\ trades[3].date # trades[1].date
    /\ Holding(positionsMap, trades[1].symbol).shares = trades[3].shares
    /\ Holding(positionsMap, trades[1].symbol).firstBuyDate = trades[1].date

\* C14: on a Sell the cost removed is min(shares, sold shares) x avgPrice,
\* shares become max(0, shares - sold shares) and totalCost becomes
\* max(0, totalCost - cost removed).
C14_BuilderOnSell ==
    [][TradeStep /\ NewTrade.type = "sell" =>
        LET t   == NewTrade
            old == Holding(positionsMap, t.symbol)
            new == Holding(positionsMap', t.symbol)
            costRemoved == Mul(MathMin(old.shares, t.shares), old.avgPrice)
        IN  /\ OthersUntouched(t.symbol)
            /\ new.shares = MathMax(Zero, Sub(old.shares, t.shares))
            /\ new.totalCost = MathMax(Zero, Sub(old.totalCost, costRemoved))]_vars

\* 10 shares were bought and more than 10 sold: the position is left with
\* no shares and no cost
C14_Witness ==
    /\ pc = "forEach"
    /\ Len(trades) = 2
    /\ trades[1].symbol = trades[2].symbol
    /\ trades[1].type = "buy"
    /\ trades[2].type = "sell"
    /\ Gt(trades[2].shares, trades[1].shares)
    /\ Holding(positionsMap, trades[1].symbol).shares = Zero
    /\ Holding(positionsMap, trades[1].symbol).totalCost = Zero

\* C15: a Sell never changes a position's avgPrice: after any Sell it is what
\* it was before; only a Buy recomputes it.
C15_SellKeepsAverage ==
    [][TradeStep =>
        LET t   == NewTrade
            old == Holding(positionsMap, t.symbol)
            new == Holding(positionsMap', t.symbol)
        IN  /\ t.type = "sell" => new.avgPrice = old.avgPrice
            /\ new.avgPrice # old.avgPrice => t.type = "buy"]_vars

\* a position bought at 100 and then sold completely still has avgPrice 100
C15_Witness ==
    /\ pc = "forEach"
    /\ Len(trades) = 2
    /\ trades[1].symbol = trades[2].symbol
    /\ trades[1].type = "buy"
    /\ trades[1].price = Num(100)
    /\ trades[2].type = "sell"
    /\ trades[2].shares = trades[1].shares
    /\ Holding(positionsMap, trades[1].symbol).shares = Zero
    /\ Holding(positionsMap, trades[1].symbol).avgPrice = Num(100)

\* C16: after any sequence of trades every position has shares >= 0 and
\* totalCost >= 0; a Sell larger than the recorded shares sets shares to 0
\* and the replay goes on, and the excess does not reduce shares bought later.
C16_OversellClamp ==
    [][ForEachStep =>
        /\ pc' = "forEach"
        /\ \A k \in 1..Len(positionsMap') :
              Ge(positionsMap'[k].shares, Zero) /\ Ge(positionsMap'[k].totalCost, Zero)
        /\ TradeStep =>
              LET t   == NewTrade
                  old == Holding(positionsMap, t.symbol)
                  new == Holding(positionsMap', t.symbol)
              IN  /\ t.type = "sell" /\ Gt(t.shares, old.shares) => new.shares = Zero
                  /\ t.type = "buy" => new.shares = Add(old.shares, t.shares)]_vars

\* 10 shares were bought, 15 sold and 10 bought again: the position holds 10
C16_Witness ==
    /\ pc = "forEach"
    /\ Len(trades) = 3
    /\ \A i \in 1..3 : trades[i].symbol = trades[1].symbol
    /\ trades[1].type = "buy" /\ trades[1].shares = Num(10)
    /\ trades[2].type = "sell" /\ trades[2].shares = Num(15)
    /\ trades[3].type = "buy" /\ trades[3].shares = Num(10)
    /\ Holding(positionsMap, trades[1].symbol).shares = Num(10)

----------------------------------------------------------------------------
(* Properties of the holding periods *)

\* the lots a sale took shares from
ConsumedLots(before, after) ==
    {i \in 1..Len(before) : after[i].remaining # before[i].remaining}

\* the date of the oldest of a set of lots
OldestDate(ls, is) ==
    CHOOSE d \in {ls[i].date : i \in is} : \A i \in is : d <= ls[i].date

\* the least whole number of days that covers the time from earlier to later
WholeDays(later, earlier) ==
    CHOOSE n \in 0..(later - earlier) :
        /\ n * 24 >= later - earlier
        /\ (n - 1) * 24 < later - earlier

\* C17: the holding period of a sale is the number of days, rounded up,
\* between the sale date and the acquisition date of the oldest lot consumed
\* by the sale; the whole realized gain of the sale goes to the long-term
\* bucket only when that number is strictly greater than 365, so that
\* exactly 365 days is short-term.
C17_HoldingPeriod ==
    [][SellStep /\ ConsumedLots(lots, lots') # {} =>
        LET t    == symTrades[tIdx + 1]
            days == WholeDays(t.date, OldestDate(lots, ConsumedLots(lots, lots')))
            r    == sells'[Len(sells')]
        IN  /\ Appended(sells, sells')
            /\ r.days = days
            /\ r.isLong = (days > 365)
            /\ r.gain = toEUR(sale'.gain, symLocals.ccy)
            /\ IF days > 365
               THEN /\ results'.longRealized = Add(results.longRealized, r.gain)
                    /\ results'.shortRealized = results.shortRealized
               ELSE /\ results'.shortRealized = Add(results.shortRealized, r.gain)
                    /\ results'.longRealized = results.longRealized]_vars

\* a sale exactly 365 days after the buy of the oldest lot it consumed, which
\* also took shares from a younger lot, was counted short-term
C17_Witness ==
    /\ pc = "trade"
    /\ Len(sells) = 1
    /\ Len(sale.lotsUsed) = 2
    /\ sells[1].date - sale.lotsUsed[1].date = 365 * 24
    /\ sale.lotsUsed[2].date > sale.lotsUsed[1].date
    /\ sells[1].days = 365
    /\ ~sells[1].isLong
    /\ results.shortRealized = sells[1].gain
    /\ results.shortRealized # Zero
    /\ results.longRealized = Zero

\* the end of a symbol's replay
SymbolEndStep ==
    /\ pc = "trade"
    /\ tIdx = Len(symTrades)
    /\ Len(results'.bySymbol) = Len(results.bySymbol) + 1

\* what one lot contributes to the unrealized gain, in EUR: nothing when it
\* has no more than 0.00001 shares left or is not of the wanted age
LotUnrealized(l, wantLong) ==
    IF Gt(l.remaining, QtyEps) /\ (WholeDays(now, l.date) > 365) = wantLong
    THEN toEUR(Mul(l.remaining, Sub(symLocals.curPrice, l.price)), symLocals.ccy)
    ELSE Zero

UnrealizedOf(ls, wantLong) ==
    SumRat([i \in 1..Len(ls) |-> LotUnrealized(ls[i], wantLong)])

\* C18: every lot with more than 0.00001 shares remaining contributes
\* remaining x (current price - unit cost of the lot) to the unrealized gain,
\* and each lot is put in the long-term or the short-term bucket by the days
\* between today and its own acquisition date (more than 365 is long-term),
\* independently of the other lots.
C18_UnrealizedPerLot ==
    [][SymbolEndStep =>
        /\ results'.longUnrealized =
              Add(results.longUnrealized, UnrealizedOf(lots, TRUE))
        /\ results'.shortUnrealized =
              Add(results.shortUnrealized, UnrealizedOf(lots, FALSE))]_vars

\* a symbol ended with two old lots and a lot bought exactly 365 days before
\* today, the old lots with a gain and the young one with a loss
C18_Witness ==
    /\ Len(results.bySymbol) = 1
    /\ Len(lots) = 3
    /\ \A i \in 1..3 : Gt(lots[i].remaining, QtyEps)
    /\ now - lots[2].date > 365 * 24
    /\ now - lots[3].date = 365 * 24
    /\ Gt(results.longUnrealized, Zero)
    /\ Lt(results.shortUnrealized, Zero)

----------------------------------------------------------------------------
(* Properties of the replay order *)

Perms(n) == {p \in [1..n -> 1..n] : \A i, j \in 1..n : p[i] = p[j] => i = j}

Reordered(xs, p) == [i \in 1..Len(xs) |-> xs[p[i]]]

DistinctDates(xs) ==
    \A i, j \in 1..Len(xs) :
        DateValue(xs[i].transaction_date) = DateValue(xs[j].transaction_date) => i = j

\* the classifier and the position builder run over a list in the order given
RECURSIVE Replay(_, _, _)
Replay(xs, i, acc) ==
    IF i > Len(xs) THEN acc
    ELSE LET f == Fields(xs[i])
             c == Category(f)
         IN  Replay(xs, i + 1,
                [positionsMap |-> IF c = "trade" THEN ApplyTrade(acc.positionsMap, f)
                                  ELSE acc.positionsMap,
                 trades |-> IF c = "trade" THEN Append(acc.trades, TradeRecord(f, i - 1))
                            ELSE acc.trades,
                 fees |-> IF c = "fee" THEN Append(acc.fees, FeeRecord(f, i - 1))
                          ELSE IF c = "tax" THEN Append(acc.fees, TaxRecord(f, i - 1))
                          ELSE acc.fees,
                 dividends |-> IF c = "dividend" /\ DividendEmitted(f)
                               THEN Append(acc.dividends, DividendRecord(f, i - 1))
                               ELSE acc.dividends])

\* what processTransactions returns for a list
OutputsOf(xs) ==
    LET r == Replay(SortByDate(xs, TxDates(xs)), 1,
                    [positionsMap |-> <<>>, trades |-> <<>>, fees |-> <<>>,
                     dividends |-> <<>>])
    IN  [positions |-> OpenPositions(r.positionsMap), trades |-> r.trades,
         fees |-> r.fees, dividends |-> r.dividends]

\* C20: the records are replayed in non-decreasing order of transaction_date,
\* records of the same instant in the order of the input; and every
\* reordering of an input whose dates are pairwise distinct gives the same
\* positions, trades, fees and dividends.
C20_ReplayOrder ==
    pc = "gains" =>
        /\ \E p \in Perms(Len(rawTransactions)) :
              /\ sorted = Reordered(rawTransactions, p)
              /\ \A i, j \in 1..Len(sorted) :
                    i < j =>
                       \/ DateValue(sorted[i].transaction_date)
                             < DateValue(sorted[j].transaction_date)
                       \/ /\ DateValue(sorted[i].transaction_date)
                                = DateValue(sorted[j].transaction_date)
                          /\ p[i] < p[j]
        /\ DistinctDates(rawTransactions) =>
              \A p \in Perms(Len(rawTransactions)) :
                  OutputsOf(Reordered(rawTransactions, p)) =
                      [positions |-> positions, trades |-> trades, fees |-> fees,
                       dividends |-> dividends]

\* two trades and a fee given newest first were replayed oldest first and
\* left an open position
C20_Witness ==
    /\ pc = "gains"
    /\ Len(rawTransactions) = 3
    /\ DateValue(rawTransactions[1].transaction_date)
          > DateValue(rawTransactions[2].transaction_date)
    /\ DateValue(rawTransactions[2].transaction_date)
          > DateValue(rawTransactions[3].transaction_date)
    /\ Len(trades) = 2
    /\ Len(fees) = 1
    /\ \A i \in 1..(Len(sorted) - 1) :
          DateValue(sorted[i].transaction_date) < DateValue(sorted[i + 1].transaction_date)
    /\ positions # <<>>

----------------------------------------------------------------------------
(* Properties of the currency conversion *)

\* the documented rates to EUR
RateTable == [c \in {S_USD, S_EUR, S_GBP} |->
                 IF c = S_USD THEN Rat(92, 100)
                 ELSE IF c = S_GBP THEN Rat(117, 100) ELSE Num(1)]

\* the documented conversion of an amount in a currency
InEUR(amount, code) ==
    IF code = S_EUR THEN amount
    ELSE IF code \in DOMAIN RateTable THEN Mul(amount, RateTable[code])
    ELSE Mul(amount, Rat(92, 100))

AmountsInEUR(rs) == SumRat([i \in 1..Len(rs) |-> InEUR(rs[i].amount, rs[i].currency)])

MetricsStep == pc = "metrics" /\ pc' = "gains"

\* C19: toEUR(amount, code) returns the amount unchanged when the code is
\* EUR, the amount times the rate of the code when the code is in the rate
\* table (100 GBP gives 117), and the amount times 0.92 for every code that
\* is not in the table; the totals of the fees and of the dividends are the
\* sums of the amounts converted so.
C19_ToEUR ==
    [][MetricsStep =>
        /\ totalFees' = AmountsInEUR(fees)
        /\ totalDivs' = AmountsInEUR(dividends)]_vars

\* a fee of 100 GBP and a fee of 100 CHF were totalled as 117 + 92 EUR
C19_Witness ==
    /\ pc = "gains"
    /\ Len(fees) = 2
    /\ fees[1].amount = Num(100) /\ fees[1].currency = S_GBP
    /\ fees[2].amount = Num(100) /\ fees[2].currency = C_CHF
    /\ totalFees = Num(209)

----------------------------------------------------------------------------
(* Properties of the diagnostic counters *)

CounterSum ==
    stats.cash + stats.fees + stats.taxes + stats.dividends + stats.buys
        + stats.sells + stats.skipped

\* C29: the diagnostic counters partition the input: after
\* processTransactions on N records the seven counters add up to N (and to
\* the number of records replayed so far during the replay), the number of
\* trades is buys + sells, the number of fee records is fees + taxes, and the
\* number of dividend records is at most the dividends counter.
C29_CountersPartition ==
    pc \in {"forEach", "metrics"} =>
        /\ CounterSum = idx
        /\ pc = "metrics" => CounterSum = Len(rawTransactions)
        /\ Len(trades) = stats.buys + stats.sells
        /\ Len(fees) = stats.fees + stats.taxes
        /\ Len(dividends) <= stats.dividends

\* a dividend of amount 0 was counted and not emitted
C29_Witness ==
    /\ pc = "metrics"
    /\ Len(rawTransactions) = 1
    /\ stats.dividends = 1
    /\ CounterSum = 1
    /\ dividends = <<>>

----------------------------------------------------------------------------
(* Properties of the tax lots *)

\* a step of the replay of the current symbol's trades
ReplayStep == pc = "trade" /\ tIdx < Len(symTrades) /\ tIdx' = tIdx + 1

LotsWithinBounds(ls) ==
    \A i \in 1..Len(ls) : Ge(ls[i].remaining, Zero) /\ Le(ls[i].remaining, ls[i].shares)

\* C26: tax lots are created only by a Buy and only drained by Sells: every
\* lot has 0 <= remaining <= its original share count, the remaining of a lot
\* never increases from one step to the next, a Buy appends one new full lot
\* and leaves the others as they are (a lot that reached zero is never
\* refilled), and a Sell creates no lot.
C26_LotsOnlyDrained ==
    [][ReplayStep =>
        LET t == symTrades[tIdx + 1]
        IN  /\ LotsWithinBounds(lots) /\ LotsWithinBounds(lots')
            /\ Len(lots') >= Len(lots)
            /\ \A i \in 1..Len(lots) :
                  /\ Le(lots'[i].remaining, lots[i].remaining)
                  /\ lots'[i].shares = lots[i].shares
            /\ t.type = "buy" =>
                  /\ Appended(lots, lots')
                  /\ lots'[Len(lots')].remaining = t.shares
                  /\ lots'[Len(lots')].shares = t.shares
            /\ t.type = "sell" => Len(lots') = Len(lots)]_vars

\* a buy after the only lot was sold out: the empty lot stays empty and a
\* new lot follows it
C26_Witness ==
    /\ pc = "trade"
    /\ Len(lots) = 2
    /\ lots[1].remaining = Zero
    /\ Gt(lots[1].shares, Zero)
    /\ lots[2].remaining = lots[2].shares
    /\ tIdx = 3
    /\ symTrades[2].type = "sell"
    /\ symTrades[3].type = "buy"

----------------------------------------------------------------------------
(* Properties of the totals of the gains report *)

SumOfSymbols(field) ==
    SumRat([i \in 1..Len(results.bySymbol) |-> results.bySymbol[i][field]])

\* C28: between two symbols and at the end of the report, shortRealized +
\* longRealized = realized and shortUnrealized + longUnrealized = unrealized;
\* realized, unrealized, proceeds and costSold are the sums of the
\* per-symbol values; and per symbol total = realized + unrealized and
\* realized = proceeds - costSold.
C28_TotalsConsistent ==
    pc \in {"symbol", "done"} =>
        /\ Add(results.shortRealized, results.longRealized) = results.realized
        /\ Add(results.shortUnrealized, results.longUnrealized) = results.unrealized
        /\ results.realized = SumOfSymbols("realized")
        /\ results.unrealized = SumOfSymbols("unrealized")
        /\ results.proceeds = SumOfSymbols("proceeds")
        /\ results.costSold = SumOfSymbols("costSold")
        /\ \A i \in 1..Len(results.bySymbol) :
              LET e == results.bySymbol[i]
              IN  /\ e.total = Add(e.realized, e.unrealized)
                  /\ e.realized = Sub(e.proceeds, e.costSold)

\* a finished report over two symbols, one in USD, with realized and
\* unrealized gains
C28_Witness ==
    /\ pc = "done"
    /\ Len(results.bySymbol) = 2
    /\ results.bySymbol[1].currency # results.bySymbol[2].currency
    /\ results.realized # Zero
    /\ results.unrealized # Zero
    /\ results.bySymbol[1].realized # Zero
    /\ results.bySymbol[2].realized # Zero

----------------------------------------------------------------------------
(* Agreement of the position builder and the FIFO replay *)

\* the symbol whose replay has just ended
EndedSymbol == symbols[symIdx]

\* its entry in the gains report
EndedEntry == results.bySymbol[Len(results.bySymbol)]

IsWhole(r) == r.d = 1

\* every trade of the symbol is of a whole number of shares
WholeShares(sym) ==
    \A i \in 1..Len(trades) : trades[i].symbol = sym => IsWhole(trades[i].shares)

\* C27 as stated: for every trade sequence the shares of the position equal
\* the total remaining shares of the symbol's lots, and the symbol is
\* reported fullySold exactly when no lot has shares left.
C27_AsStated ==
    pc = "symbol" /\ symIdx >= 1 =>
        /\ Holding(positionsMap, EndedSymbol).shares = TotalRemaining(lots)
        /\ EndedEntry.fullySold <=> TotalRemaining(lots) = Zero

\* C27 (amended): the shares of the position never exceed the total
\* remaining shares of the symbol's lots, and the symbol is reported
\* fullySold exactly when the position holds at most 0.00001 shares; when
\* every trade of the symbol is of a whole number of shares, oversells and
\* sells before any buy included, the two quantities are equal and
\* fullySold holds exactly when no lot has shares left.
C27_LedgersAgree ==
    pc = "symbol" /\ symIdx >= 1 =>
        LET held == Holding(positionsMap, EndedSymbol).shares
        IN  /\ Le(held, TotalRemaining(lots))
            /\ EndedEntry.fullySold <=> Le(held, QtyEps)
            /\ WholeShares(EndedSymbol) =>
                  /\ held = TotalRemaining(lots)
                  /\ EndedEntry.remShares = held
                  /\ EndedEntry.fullySold <=> TotalRemaining(lots) = Zero

\* a symbol sold beyond its holding and bought again: the position and the
\* lots both hold the last buy
C27_Witness ==
    /\ pc = "symbol" /\ symIdx >= 1
    /\ Len(symTrades) = 3
    /\ symTrades[1].type = "buy" /\ symTrades[2].type = "sell"
    /\ symTrades[3].type = "buy"
    /\ Gt(symTrades[2].shares, symTrades[1].shares)
    /\ WholeShares(EndedSymbol)
    /\ Holding(positionsMap, EndedSymbol).shares = symTrades[3].shares
    /\ TotalRemaining(lots) = symTrades[3].shares
    /\ ~EndedEntry.fullySold

----------------------------------------------------------------------------
(* Properties of the current price *)

\* the start of a symbol's replay
SymbolBeginStep == pc = "symbol" /\ symIdx < Len(symbols) /\ pc' = "trade"

\* the open position of a symbol
OpenPosition(sym) ==
    positions[CHOOSE k \in 1..Len(positions) : positions[k].symbol = sym]

HasOpenPosition(sym) == \E k \in 1..Len(positions) : positions[k].symbol = sym

\* C24 as stated: for a symbol with an open position the current price is
\* the live price of the position when it is positive, and the average cost
\* of the position when the live price is missing, zero or negative.
C24_AsStated ==
    [][SymbolBeginStep /\ HasOpenPosition(symbols[symIdx + 1]) =>
        LET pos == OpenPosition(symbols[symIdx + 1])
        IN  symLocals'.curPrice =
               IF Gt(pos.currentPrice, Zero) THEN pos.currentPrice ELSE pos.avgPrice]_vars

\* what the code does: the live price is used whenever it is not zero, a
\* negative one included
C24_NonZeroPriceUsed ==
    [][SymbolBeginStep /\ HasOpenPosition(symbols[symIdx + 1]) =>
        LET pos == OpenPosition(symbols[symIdx + 1])
        IN  symLocals'.curPrice =
               IF pos.currentPrice # Zero THEN pos.currentPrice ELSE pos.avgPrice]_vars

----------------------------------------------------------------------------
(* Independence of the symbols *)

\* the records of the input that belong to a symbol
OwnRecords(sym) ==
    SelectSeq(rawTransactions, LAMBDA tx : SplitFirst(Fields(tx).symbol) = sym)

\* the positions of a symbol, without their rank among the open positions
OwnPositions(ps, sym) ==
    LET mine == SelectSeq(ps, LAMBDA p : p.symbol = sym)
    IN  [i \in 1..Len(mine) |-> [mine[i] EXCEPT !.id = 0]]

\* the FIFO replay of the trades of one symbol, from an empty lot queue
RECURSIVE SoloReplay(_, _, _, _)
SoloReplay(st, i, ccy, acc) ==
    IF i > Len(st) THEN acc
    ELSE IF st[i].type = "buy"
    THEN SoloReplay(st, i + 1, ccy,
            [acc EXCEPT !.lots = Append(@, [date |-> st[i].date, shares |-> st[i].shares,
                                            remaining |-> st[i].shares,
                                            price |-> st[i].price])])
    ELSE LET m == MatchLots(acc.lots, 1, st[i].shares, Zero, <<>>)
         IN  SoloReplay(st, i + 1, ccy,
                [lots |-> m.lots,
                 realized |-> Add(acc.realized,
                                  toEUR(Sub(Mul(st[i].shares, st[i].price), m.costBasis), ccy)),
                 costSold |-> Add(acc.costSold, toEUR(m.costBasis, ccy)),
                 proceeds |-> Add(acc.proceeds, toEUR(Mul(st[i].shares, st[i].price), ccy))])

\* the gains of a symbol computed from its own trades, its own position and
\* today's date alone
SoloEntry(ts, ps, sym, today) ==
    LET st  == SymTrades(ts, sym)
        ccy == IF ps # <<>> /\ ps[1].currency # <<>> THEN ps[1].currency
               ELSE IF st[1].currency # <<>> THEN st[1].currency ELSE S_EUR
        cur == IF ps # <<>> /\ ps[1].currentPrice # Zero THEN ps[1].currentPrice
               ELSE IF ps # <<>> THEN ps[1].avgPrice ELSE Zero
        r   == SoloReplay(st, 1, ccy, [lots |-> <<>>, realized |-> Zero,
                                       costSold |-> Zero, proceeds |-> Zero])
        u   == Unrealized(r.lots, 1, cur, ccy, today,
                          [remShares |-> Zero, remCost |-> Zero, long |-> Zero,
                           short |-> Zero])
    IN  [lots |-> r.lots, realized |-> r.realized, proceeds |-> r.proceeds,
         costSold |-> r.costSold, remShares |-> u.remShares,
         unrealized |-> toEUR(Sub(Mul(u.remShares, cur), u.remCost), ccy)]

\* C23: the position and the gains entry (realized, unrealized, proceeds,
\* costSold, remaining shares, lots) of a symbol are those of a run on the
\* records of that symbol alone: the records of the other symbols, wherever
\* they stand in the input, change nothing.
C23_SymbolIndependence ==
    pc = "symbol" /\ symIdx >= 1 =>
        LET sym  == EndedSymbol
            solo == OutputsOf(OwnRecords(sym))
            se   == SoloEntry(solo.trades, OwnPositions(positions, sym), sym, now)
            e    == EndedEntry
        IN  /\ OwnPositions(positions, sym) = OwnPositions(solo.positions, sym)
            /\ lots = se.lots
            /\ e.realized = se.realized
            /\ e.unrealized = se.unrealized
            /\ e.proceeds = se.proceeds
            /\ e.costSold = se.costSold
            /\ e.remShares = se.remShares

\* the second symbol of an input in which the trades of two symbols
\* alternate ended with a realized gain and shares left
C23_Witness ==
    /\ pc = "symbol" /\ symIdx = 2
    /\ Len(rawTransactions) = 4
    /\ Fields(rawTransactions[1]).symbol = Fields(rawTransactions[3]).symbol
    /\ Fields(rawTransactions[2]).symbol = Fields(rawTransactions[4]).symbol
    /\ Fields(rawTransactions[1]).symbol # Fields(rawTransactions[2]).symbol
    /\ EndedEntry.realized # Zero
    /\ results.bySymbol[1].realized # Zero

----------------------------------------------------------------------------
(* Properties of repeated runs *)

\* the positions map built from scratch over a sorted list
MapFromScratch(xs) ==
    Replay(xs, 1, [positionsMap |-> <<>>, trades |-> <<>>, fees |-> <<>>,
                   dividends |-> <<>>]).positionsMap

\* C21: a run is a function of the raw record list (and of today): whatever
\* an earlier invocation left behind in the positions map, the lot queues,
\* the counters or the log, a finished run gives the positions, trades, fees,
\* dividends, counters and gains of a first run on the same list, so that
\* two runs on the same list give identical output.
C21_Idempotent ==
    pc = "done" /\ rawTransactions # <<>> =>
        /\ [positions |-> positions, trades |-> trades, fees |-> fees,
            dividends |-> dividends] = OutputsOf(rawTransactions)
        /\ positionsMap = MapFromScratch(sorted)
        /\ CounterSum = Len(rawTransactions)
        /\ auditLog[1].kind = "START"
        /\ Len(results.bySymbol) = Len(TradeSymbols(trades))
        /\ \A i \in 1..Len(results.bySymbol) :
              LET e  == results.bySymbol[i]
                  se == SoloEntry(trades, OwnPositions(positions, e.symbol), e.symbol, now)
              IN  /\ e.realized = se.realized
                  /\ e.unrealized = se.unrealized
                  /\ e.proceeds = se.proceeds
                  /\ e.costSold = se.costSold
                  /\ e.remShares = se.remShares
        /\ results.realized = SumOfSymbols("realized")
        /\ results.unrealized = SumOfSymbols("unrealized")

\* a run on a single buy finished after an earlier invocation whose sale
\* and positions are still in memory
C21_Witness ==
    /\ pc = "done"
    /\ Len(rawTransactions) = 1
    /\ Len(trades) = 1 /\ trades[1].type = "buy"
    /\ sale # NoSale
    /\ dashboard.status = "success"
    /\ Len(positions) = 1
    /\ positions[1].shares = Num(10)

----------------------------------------------------------------------------
(* Properties of the refresh *)

\* the positions, trades, fees and dividends the dashboard shows
Shown(ps, d) ==
    [positions |-> ps, trades |-> d.trades, fees |-> d.fees, dividends |-> d.dividends]

\* the fetch of a refresh threw
FetchFailed == pc = "done" /\ pc' = "done" /\ dashboard'.status = "error"

\* the fetch of a refresh delivered an empty list
FetchedNothing == pc = "done" /\ pc' = "done" /\ dashboard'.status = "loading"

\* the result of processTransactions is handed to the dashboard
Committed == pc = "forEach" /\ pc' = "metrics"

\* C25 as stated: a refresh whose fetch delivered the list replaces the
\* positions, trades, fees and dividends together by the result of the
\* pipeline for that list, an empty list included; a refresh whose fetch
\* failed changes none of them; no other step changes any of them.
C25_AsStated ==
    [][/\ FetchFailed => Shown(positions', dashboard') = Shown(positions, dashboard)
       /\ FetchedNothing => Shown(positions', dashboard') = OutputsOf(<<>>)
       /\ Committed => /\ Shown(positions', dashboard') = OutputsOf(rawTransactions)
                       /\ dashboard'.rawTx = rawTransactions
       /\ ~Committed /\ ~FetchedNothing =>
             Shown(positions', dashboard') = Shown(positions, dashboard)
       /\ Shown(positions', dashboard') = OutputsOf(dashboard'.rawTx)]_vars

\* C25 (amended): a refresh whose fetch delivered a list that is not empty
\* replaces the positions, trades, fees and dividends together by the result
\* of the pipeline for that list; a refresh whose fetch failed or delivered
\* an empty list changes none of them; no other step changes any of them, so
\* that the four always are the result for one fetched list.
C25_AllOrNothing ==
    [][/\ FetchFailed => Shown(positions', dashboard') = Shown(positions, dashboard)
       /\ FetchedNothing => Shown(positions', dashboard') = Shown(positions, dashboard)
       /\ Committed => /\ Shown(positions', dashboard') = OutputsOf(rawTransactions)
                       /\ dashboard'.rawTx = rawTransactions
       /\ ~Committed => Shown(positions', dashboard') = Shown(positions, dashboard)
       /\ Shown(positions', dashboard') = OutputsOf(dashboard'.rawTx)]_vars

\* a dashboard showing a position and a fee after a refresh that replaced
\* an earlier list, then a refresh whose fetch failed
C25_Witness ==
    /\ pc = "done"
    /\ dashboard.status = "error"
    /\ Len(dashboard.rawTx) = 2
    /\ Len(dashboard.trades) = 1
    /\ Len(dashboard.fees) = 1
    /\ Len(positions) = 1
    /\ sale # NoSale

----------------------------------------------------------------------------
(* Properties of the inputs of a run *)

\* C22 (run of processTransactions and of the gains): the raw list handed
\* to processTransactions keeps its order and contents from the call to the
\* end of the gains, the trades list keeps its order and contents once it is
\* returned, and the lot queue of a symbol starts empty.
C22_InputsKept ==
    [][/\ rawTransactions' = rawTransactions
       /\ pc \in {"metrics", "gains", "symbol", "trade"} => trades' = trades
       /\ SymbolBeginStep => lots' = <<>>]_vars

----------------------------------------------------------------------------
(* Properties of recordTransaction *)

\* the number the caller passed as the quantity
PassedQuantity == ToNumber(addTrade.tradeData.quantity)

\* C30: the quantity of the row handed to insert has the size of the
\* quantity passed in and the sign of the type: it is not positive when the
\* type is 'sell' and not negative for every other type, whatever the sign
\* passed in; the symbol of the row is the symbol passed in with its letters
\* in upper case; and when the insert reported an error the call threw,
\* returned no data and stored no row.
C30_SignFromType ==
    addTrade.outcome # "none" =>
        /\ MathAbs(addTrade.row.quantity) = MathAbs(PassedQuantity)
        /\ addTrade.tradeData.type = S_sell => ~Lt(Zero, addTrade.row.quantity)
        /\ addTrade.tradeData.type # S_sell => ~Lt(addTrade.row.quantity, Zero)
        /\ ToLowerCase(addTrade.row.symbol) = ToLowerCase(addTrade.tradeData.symbol)
        /\ \A i \in 1..Len(addTrade.row.symbol) :
              \A j \in 1..26 : addTrade.row.symbol[i] # Lowers[j]
        /\ addTrade.outcome = "thrown" =>
              /\ ~addTrade.data.returned
              /\ addTrade.data.rows = <<>>
        /\ addTrade.outcome = "returned" =>
              /\ addTrade.data.returned
              /\ addTrade.table # <<>>
              /\ addTrade.table[Len(addTrade.table)] = addTrade.row

\* a sell of btc passed with the quantity '5' was stored as -5 of BTC
C30_Witness ==
    /\ addTrade.outcome = "returned"
    /\ addTrade.tradeData.type = S_sell
    /\ addTrade.tradeData.quantity = JStr(<<"5">>)
    /\ addTrade.tradeData.symbol = <<"b", "t", "c">>
    /\ Len(addTrade.table) = 1
    /\ addTrade.table[1].quantity = Num(-5)
    /\ addTrade.table[1].symbol = <<"B", "T", "C">>

----------------------------------------------------------------------------
(* The same classifier properties on the larger dashboard's processTransactions *)

\* a call of the forEach callback of the larger dashboard
LegacyStep == pc = "legacyForEach" /\ idx < Len(sorted) /\ idx' = idx + 1

\* C8, on the larger dashboard: a record that reaches the Trade rule becomes
\* a trade exactly when (asset type is stock, etf or equity, or transaction
\* type is buy, sell, transfer in or transfer out) and |quantity| > 0.00001
\* and price > 0, with shares = |quantity| > 0 and price > 0; otherwise it
\* emits no trade and changes no position.
C8_Legacy_AsStated ==
    [][LegacyStep /\ ReachesTradeRule(LegacyFields(sorted[idx + 1])) =>
        LET f == LegacyFields(sorted[idx + 1])
        IN  IF /\ \/ f.assetType \in {S_stock, S_etf, S_equity}
                  \/ f.txType \in {S_buy, S_sell, S_transfer_in, S_transfer_out}
               /\ Gt(MathAbs(f.qty), Rat(1, 100000))
               /\ Gt(f.price, Zero)
            THEN /\ Appended(trades, trades')
                 /\ trades'[Len(trades')].shares = MathAbs(f.qty)
                 /\ trades'[Len(trades')].price = f.price
                 /\ Gt(trades'[Len(trades')].shares, Zero)
                 /\ Gt(trades'[Len(trades')].price, Zero)
            ELSE /\ trades' = trades
                 /\ positionsMap' = positionsMap]_vars

\* C9, on the larger dashboard: the direction of a trade is Sell for
\* transaction type 'sell' or 'transfer out' and Buy for 'buy' or
\* 'transfer in', whatever the sign of the quantity; for any other
\* transaction type it is the sign of the quantity.
C9_Legacy_AsStated ==
    [][LegacyStep /\ Len(trades') = Len(trades) + 1 =>
        LET f == LegacyFields(sorted[idx + 1])
            t == trades'[Len(trades')]
        IN  /\ f.txType \in {S_sell, S_transfer_out} => t.type = "sell"
            /\ f.txType \in {S_buy, S_transfer_in} => t.type = "buy"
            /\ f.txType \notin {S_sell, S_transfer_out, S_buy, S_transfer_in} =>
                  t.type = IF Gt(f.qty, Zero) THEN "buy" ELSE "sell"]_vars

\* C10, on the larger dashboard: for a record classified Dividend the amount
\* is |price| when |quantity| < 0.0001 and |price x quantity| otherwise, and
\* a dividend record is emitted only if that amount is above 0.001.
C10_Legacy_AsStated ==
    [][LegacyStep /\ ~LegacyIsCash(LegacyFields(sorted[idx + 1]))
                  /\ ~LegacyIsFee(LegacyFields(sorted[idx + 1]))
                  /\ ~LegacyIsTax(LegacyFields(sorted[idx + 1]))
                  /\ LegacyIsDividend(LegacyFields(sorted[idx + 1])) =>
        LET f   == LegacyFields(sorted[idx + 1])
            amt == IF Lt(MathAbs(f.qty), Rat(1, 10000)) THEN MathAbs(f.price)
                   ELSE MathAbs(Mul(f.price, f.qty))
        IN  /\ Gt(amt, Rat(1, 1000)) =>
                  /\ Appended(dividends, dividends')
                  /\ dividends'[Len(dividends')].amount = amt
            /\ ~Gt(amt, Rat(1, 1000)) => dividends' = dividends]_vars

LegacyMetricsStep == pc = "legacyMetrics" /\ pc' = "legacyDone"

\* C19 as stated, for the larger dashboard: the total of the fees is the sum
\* of the amounts converted with the rate of their own currency
C19_Legacy_AsStated ==
    [][LegacyMetricsStep => totalFees' = AmountsInEUR(fees)]_vars

\* a step of the trade history tab
LegacyRenderStep == pc = "legacyDone" /\ pc' = "legacyDone"

\* C22 as stated, on the larger dashboard: the trades list that the gains
\* computation reads keeps its order and contents, and so does the raw list.
C22_Legacy_AsStated ==
    [][/\ rawTransactions' = rawTransactions
       /\ LegacyRenderStep => trades' = trades]_vars

====
